---- MODULE Spec2Model ----
(***************************************************************************)
(* klog-inator: the archive matcher (pkg/inator/match.go), its chunked     *)
(* reader (pkg/fast/reader.go) and the fingerprints (pkg/inator/types.go). *)
(*                                                                         *)
(* Bytes are one-character strings, byte slices are sequences of them.     *)
(* Go offsets are 0-based: At(s, i) is s[i] and Slice(s, lo, hi) is        *)
(* s[lo:hi].                                                               *)
(***************************************************************************)
EXTENDS Integers, Sequences, FiniteSets, Bags, TLC

(***************************************************************************)
(* Bounds of the model.                                                    *)
(***************************************************************************)
\* longest archive built from every mix of the sample lines
MaxLines == 2
\* longest archive of identical matching lines (scenario S4 of the spec)
MaxRepeat == 5
\* number of Match invocations made in one process
MaxRuns == 2
\* longest archive over the two bytes of ByteArchives
MaxBytes == 5
\* bufio.MaxScanTokenSize, 64 KiB in the library, on the scale of the
\* model's lines: longer than every line of SampleLines
MaxScanTokenSize == 48

(***************************************************************************)
(* Bytes and slices.                                                       *)
(***************************************************************************)
NL == "\n"
CR == "\r"
SP == " "

Digits == <<"0", "1", "2", "3", "4", "5", "6", "7", "8", "9">>
DigitSet == {Digits[i] : i \in 1..10}
LowerSet == {"a", "b", "c", "d", "e", "f", "g", "h", "i", "j", "k", "l", "m",
             "n", "o", "p", "q", "r", "s", "t", "u", "v", "w", "x", "y", "z"}
UpperSet == {"A", "B", "C", "D", "E", "F", "G", "H", "I", "J", "K", "L", "M",
             "N", "O", "P", "Q", "R", "S", "T", "U", "V", "W", "X", "Y", "Z"}

At(s, i) == s[i + 1]
Slice(s, lo, hi) == SubSeq(s, lo + 1, hi)

\* c - '0'
DigitVal(c) == (CHOOSE i \in 1..10 : Digits[i] = c) - 1

RECURSIVE ItoaNat(_)
ItoaNat(n) == IF n < 10 THEN <<Digits[n + 1]>>
              ELSE ItoaNat(n \div 10) \o <<Digits[(n % 10) + 1]>>

\* strconv.Itoa
Itoa(n) == IF n < 0 THEN <<"-">> \o ItoaNat(0 - n) ELSE ItoaNat(n)

RECURSIVE StripZeros(_)
StripZeros(ds) == IF Len(ds) > 1 /\ ds[1] = "0" THEN StripZeros(Tail(ds)) ELSE ds

RECURSIVE DigitsValue(_)
DigitsValue(ds) == IF ds = <<>> THEN 0
                   ELSE 10 * DigitsValue(SubSeq(ds, 1, Len(ds) - 1)) + DigitVal(ds[Len(ds)])

\* the largest int, and its decimal digits.  Go's int is carried at 32
\* bits, as a 32-bit build has it (math.MaxInt32); a 64-bit build does the
\* same at 1<<63 - 1.
MaxInt == 2147483647
MaxIntDigits == <<"2", "1", "4", "7", "4", "8", "3", "6", "4", "7">>

RECURSIVE DigitsGreater(_, _)
\* a > b for two digit strings of the same length
DigitsGreater(a, b) == IF a = <<>> THEN FALSE
                       ELSE IF a[1] # b[1] THEN DigitVal(a[1]) > DigitVal(b[1])
                       ELSE DigitsGreater(Tail(a), Tail(b))

\* strconv.Atoi on a string of decimal digits: beside the range error it
\* returns the largest int
Atoi(ds) == LET z == StripZeros(ds)
                over == Len(z) > 10 \/ (Len(z) = 10 /\ DigitsGreater(z, MaxIntDigits))
            IN IF ds = <<>> THEN [val |-> 0, err |-> TRUE]
               ELSE IF over THEN [val |-> MaxInt, err |-> TRUE]
               ELSE [val |-> DigitsValue(z), err |-> FALSE]

(***************************************************************************)
(* types.go: the two records and their fingerprints.  SHA-1 is taken as    *)
(* injective: the fingerprint is the byte string that is hashed.           *)
(***************************************************************************)
RECURSIVE LastIndexOf(_, _)
\* 1-based position of the last c in s, 0 when there is none
LastIndexOf(s, c) == IF s = <<>> THEN 0
                     ELSE IF s[Len(s)] = c THEN Len(s)
                     ELSE LastIndexOf(SubSeq(s, 1, Len(s) - 1), c)

RECURSIVE TrimSlashes(_)
TrimSlashes(p) == IF Len(p) > 0 /\ p[Len(p)] = "/"
                  THEN TrimSlashes(SubSeq(p, 1, Len(p) - 1)) ELSE p

\* filepath.Base
Base(p) == IF p = <<>> THEN <<".">>
           ELSE LET t == TrimSlashes(p)
                IN IF t = <<>> THEN <<"/">>
                   ELSE SubSeq(t, LastIndexOf(t, "/") + 1, Len(t))

\* filepath.Dir, for the paths of the model (no ".", ".." or empty element)
Dir(p) == LET i == LastIndexOf(p, "/")
              d == TrimSlashes(SubSeq(p, 1, i))
          IN IF i = 0 THEN <<".">>
             ELSE IF d = <<>> THEN <<"/">>
             ELSE d

\* filepath.Join of two elements, for the paths of the model: an empty
\* element is ignored, a leading "." element and a doubled separator are
\* cleaned away
Join(a, b) == IF a = <<>> \/ a = <<".">> THEN b
              ELSE IF b = <<>> THEN a
              ELSE IF a = <<"/">> THEN a \o b
              ELSE a \o <<"/">> \o b

ShortSourceFile(s) == Join(Base(Dir(s.SourceFile)), Base(s.SourceFile))

\* a fingerprint of the path as the search list spells it
LogStatementFingerprintFullPath(s) ==
    s.SourceFile \o Itoa(s.LineNumber) \o Itoa(s.Severity)

\* a fingerprint that leaves the severity of the record out
ParsedLogFingerprintNoSeverity(p) == p.SourceFile \o Itoa(p.LineNumber) \o Itoa(0)

\* LogStatement.Fingerprint
LogStatementFingerprint(s) ==
    ShortSourceFile(s) \o Itoa(s.LineNumber) \o Itoa(s.Severity)

\* ParsedLog.Fingerprint
ParsedLogFingerprint(p) == p.SourceFile \o Itoa(p.LineNumber) \o Itoa(p.Severity)

(***************************************************************************)
(* match.go: ParseLine, the klog line grammar.                             *)
(***************************************************************************)
NoParsedLog == [SourceFile |-> <<>>, LineNumber |-> 0, Severity |-> 0, Message |-> <<>>]

\* the switch on line[0]; -1 is the default case
SeverityOf(c) == CASE c = "I" -> 0
                   [] c = "W" -> 1
                   [] c = "E" -> 2
                   [] c = "F" -> 3
                   [] OTHER -> -1

\* line[1:5]
MmddOk(line) ==
    /\ At(line, 1) \in {"0", "1"}
    /\ At(line, 2) \in DigitSet
    /\ At(line, 3) \in {"0", "1", "2", "3"}
    /\ At(line, 4) \in DigitSet

\* line[6:21]
HhmmssOk(line) ==
    /\ At(line, 6) \in {"0", "1", "2"}
    /\ At(line, 7) \in DigitSet
    /\ At(line, 8) = ":"
    /\ At(line, 9) \in {"0", "1", "2", "3", "4", "5"}
    /\ At(line, 10) \in DigitSet
    /\ At(line, 11) = ":"
    /\ At(line, 12) \in {"0", "1", "2", "3", "4", "5"}
    /\ At(line, 13) \in DigitSet
    /\ At(line, 14) = "."
    /\ \A i \in 15..20 : At(line, i) \in DigitSet

\* a thread id that is not looked at
ThreadidOkAny(line, i, matchSpaces) == TRUE

RECURSIVE ThreadidOk(_, _, _)
\* the loop over threadid = line[22:29], from i with the flag matchSpaces
ThreadidOk(line, i, matchSpaces) ==
    IF i >= 7 THEN TRUE
    ELSE LET c == At(line, 22 + i)
         IN IF matchSpaces /\ c = SP THEN ThreadidOk(line, i + 1, TRUE)
            ELSE IF c \notin DigitSet THEN FALSE
            ELSE ThreadidOk(line, i + 1, FALSE)

PathChar(c) == c \in {".", "-", "_"} \/ c \in LowerSet \/ c \in UpperSet \/ c \in DigitSet

RECURSIVE FilenameLoop(_, _, _, _)
\* the loop FILENAME: the values of index, dirEnd, fileStart, fileEnd it ends with
FilenameLoop(line, index, dirEnd, fileStart) ==
    IF index >= Len(line) - 1
    THEN [index |-> index, dirEnd |-> dirEnd, fileStart |-> fileStart, fileEnd |-> 0]
    ELSE LET c == At(line, index)
         IN IF PathChar(c) THEN FilenameLoop(line, index + 1, dirEnd, fileStart)
            ELSE IF c = "/" THEN FilenameLoop(line, index + 1, index, index + 1)
            ELSE IF c = ":"
            THEN [index |-> index, dirEnd |-> dirEnd, fileStart |-> fileStart, fileEnd |-> index]
            ELSE [index |-> index, dirEnd |-> dirEnd, fileStart |-> fileStart, fileEnd |-> 0]

RECURSIVE LinenumberLoop(_, _)
\* the loop LINENUMBER: the values of index and lineNumEnd it ends with
LinenumberLoop(line, index) ==
    IF index >= Len(line) - 1 THEN [index |-> index, lineNumEnd |-> 0]
    ELSE LET c == At(line, index)
         IN IF c \in DigitSet THEN LinenumberLoop(line, index + 1)
            ELSE IF c = "]" THEN [index |-> index, lineNumEnd |-> index]
            ELSE [index |-> index, lineNumEnd |-> 0]

Rejected(sev) == [ok |-> FALSE, panic |-> FALSE, ls |-> [NoParsedLog EXCEPT !.Severity = sev]]

\* a tail whose message runs to the end of the line
ParseLineTailWholeMessage(line, sev, fileEnd, lineNumStart) ==
    LET n == LinenumberLoop(line, lineNumStart)
        spaceAt == n.index + 1
        messageStart == spaceAt + 1
        messageEnd == Len(line)
        num == Atoi(Slice(line, lineNumStart, n.lineNumEnd))
    IN IF n.index = Len(line) - 1 \/ n.lineNumEnd - lineNumStart < 1 THEN Rejected(sev)
       ELSE IF At(line, spaceAt) # SP THEN Rejected(sev)
       ELSE [ok |-> TRUE, panic |-> FALSE,
             ls |-> [SourceFile |-> Slice(line, 30, fileEnd),
                     LineNumber |-> num.val,
                     Severity |-> sev,
                     Message |-> Slice(line, messageStart, messageEnd)]]

\* lines 138-174, entered with index one past the ':' that ends the filename
ParseLineTail(line, sev, fileEnd, lineNumStart) ==
    LET n == LinenumberLoop(line, lineNumStart)
        spaceAt == n.index + 1
        messageStart == spaceAt + 1
        messageEnd == Len(line) - 1
        num == Atoi(Slice(line, lineNumStart, n.lineNumEnd))
    IN IF n.index = Len(line) - 1 \/ n.lineNumEnd - lineNumStart < 1 THEN Rejected(sev)
       ELSE IF At(line, spaceAt) # SP THEN Rejected(sev)
       ELSE IF messageStart > messageEnd
            \* line[messageStart:messageEnd]: slice bounds out of range
       THEN [ok |-> FALSE, panic |-> TRUE, ls |-> NoParsedLog]
       \* ok = false on an Atoi error is overwritten by ok = true
       ELSE [ok |-> TRUE, panic |-> FALSE,
             ls |-> [SourceFile |-> Slice(line, 30, fileEnd),
                     LineNumber |-> num.val,
                     Severity |-> sev,
                     Message |-> Slice(line, messageStart, messageEnd)]]

\* ParseLine: ok and the record, or panic when the code indexes out of range
ParseLine(line) ==
    IF Len(line) <= 29 THEN Rejected(0)
    ELSE IF At(line, 5) # SP \/ At(line, 21) # SP \/ At(line, 29) # SP THEN Rejected(0)
    ELSE LET sev == SeverityOf(At(line, 0))
         IN IF sev = -1 THEN Rejected(0)
            ELSE IF ~MmddOk(line) \/ ~HhmmssOk(line) \/ ~ThreadidOk(line, 0, TRUE)
            THEN Rejected(sev)
            ELSE LET f == FilenameLoop(line, 30, 0, 0)
                 IN IF \/ f.index = Len(line) - 1
                       \/ f.dirEnd - 30 < 1
                       \/ f.fileStart # f.dirEnd + 1
                       \/ f.fileEnd - f.fileStart < 1
                    THEN Rejected(sev)
                    ELSE ParseLineTail(line, sev, f.fileEnd, f.index + 1)

(***************************************************************************)
(* match.go: the JSON branch of scanner.  fastjson.GetBytes is modelled on *)
(* the objects the model draws: {"<field>":"<string without escapes>"}     *)
(* yields the string's bytes, every other line yields nil (<<>> here, as   *)
(* no drawn payload is empty).                                             *)
(***************************************************************************)
JsonWrap(field, payload) ==
    <<"{", "\"">> \o field \o <<"\"", ":", "\"">> \o payload \o <<"\"", "}">>

GetBytes(line, field) ==
    LET pre == <<"{", "\"">> \o field \o <<"\"", ":", "\"">>
        n == Len(line)
        p == Len(pre)
    IN IF /\ n >= p + 2
          /\ SubSeq(line, 1, p) = pre
          /\ SubSeq(line, n - 1, n) = <<"\"", "}">>
          /\ \A i \in (p + 1)..(n - 2) : line[i] \notin {"\"", "\\"}
       THEN SubSeq(line, p + 1, n - 2)
       ELSE <<>>

(***************************************************************************)
(* reader.go: the chunk boundaries and bufio.Scanner's ScanLines.          *)
(***************************************************************************)
\* a chunker that cuts at the raw position
SeekNewlineRaw(b, seekPos) == seekPos

RECURSIVE SeekNewline(_, _)
\* for seekPos <= len(buf)-1 && buf[seekPos] != '\n' { seekPos++ }
SeekNewline(b, seekPos) ==
    IF seekPos <= Len(b) - 1 /\ At(b, seekPos) # NL THEN SeekNewline(b, seekPos + 1)
    ELSE seekPos

\* a chunker that never takes the last byte of the buffer
ChunkEndShort(b, startByte, chunkSize) ==
    LET s0 == startByte + chunkSize
        s1 == IF s0 > Len(b) - 1 THEN Len(b) - 1 ELSE s0
        s2 == SeekNewline(b, s1)
    IN IF s2 < Len(b) - 1 THEN s2 + 1 ELSE Len(b) - 1

\* a chunker that stops on the newline instead of after it
ChunkEndOnNewline(b, startByte, chunkSize) ==
    LET s0 == startByte + chunkSize
        s1 == IF s0 > Len(b) - 1 THEN Len(b) - 1 ELSE s0
    IN SeekNewline(b, s1)

\* a chunker that looks for the newline from the start of the chunk
ChunkEndFromStart(b, startByte, chunkSize) ==
    LET s2 == SeekNewline(b, startByte)
    IN IF s2 < Len(b) - 1 THEN s2 + 1 ELSE s2

\* the body of the chunk loop from startByte: the seekPos that ends the chunk
ChunkEnd(b, startByte, chunkSize) ==
    LET s0 == startByte + chunkSize
        s1 == IF s0 > Len(b) - 1 THEN Len(b) - 1 ELSE s0
        s2 == SeekNewline(b, s1)
    IN IF s2 < Len(b) - 1 THEN s2 + 1 ELSE s2

RECURSIVE IndexNewline(_, _, _)
\* offset of the first '\n' of b[lo:hi], hi when there is none
IndexNewline(b, lo, hi) ==
    IF lo >= hi THEN hi
    ELSE IF At(b, lo) = NL THEN lo
    ELSE IndexNewline(b, lo + 1, hi)

\* bufio's dropCR
DropCR(tok) == IF Len(tok) > 0 /\ tok[Len(tok)] = CR THEN SubSeq(tok, 1, Len(tok) - 1) ELSE tok

\* scan.Scan() on what is left of the chunk, b[lo:hi]: whether there is a
\* token, the token, and where the rest starts.  The scanner's buffer
\* grows to MaxScanTokenSize bytes: when the next that many bytes hold no
\* '\n', Scan returns false and scan.Err() is bufio.ErrTooLong (err)
ScanNext(b, lo, hi) ==
    LET j == IndexNewline(b, lo, hi)
    IN [more |-> lo < hi /\ j - lo < MaxScanTokenSize,
        err |-> lo < hi /\ j - lo >= MaxScanTokenSize,
        text |-> DropCR(Slice(b, lo, j)),
        next |-> IF j < hi THEN j + 1 ELSE hi]

RECURSIVE ScanAll(_, _, _)
\* every token the scanner yields on b[lo:hi]
ScanAll(b, lo, hi) ==
    LET s == ScanNext(b, lo, hi)
    IN IF ~s.more THEN <<>> ELSE <<s.text>> \o ScanAll(b, s.next, hi)

(***************************************************************************)
(* The search list and GenerateSearchMap (first statement of a fingerprint *)
(* wins).  A *LogStatement is its index in the search list.                *)
(***************************************************************************)
RECURSIVE GenerateSearchMapFrom(_, _, _)
GenerateSearchMapFrom(list, i, sm) ==
    IF i > Len(list) THEN sm
    ELSE LET fp == LogStatementFingerprint(list[i])
         IN IF fp \in DOMAIN sm THEN GenerateSearchMapFrom(list, i + 1, sm)
            ELSE GenerateSearchMapFrom(list, i + 1,
                     [k \in DOMAIN sm \cup {fp} |-> IF k = fp THEN i ELSE sm[k]])

EmptyMap == [k \in {} |-> 0]

GenerateSearchMap(list) == GenerateSearchMapFrom(list, 1, EmptyMap)

(***************************************************************************)
(* The inputs the model draws.                                             *)
(***************************************************************************)
\* "I1105 13:30:39.614388  739568 " with the severity letter L
Header(L) == <<L, "1", "1", "0", "5", " ",
               "1", "3", ":", "3", "0", ":", "3", "9", ".", "6", "1", "4", "3", "8", "8", " ",
               " ", "7", "3", "9", "5", "6", "8", " ">>

\* a/b:1 at Info: the call-site of the search list
LineHit == Header("I") \o <<"a", "/", "b", ":", "1", "]", " ", "m", "x">>
\* the same place at Error: no call-site
LineSev == Header("E") \o <<"a", "/", "b", ":", "1", "]", " ", "m", "x">>
\* a/b:12 at Info: hashes the bytes of a/b1 line 2
LineAmb == Header("I") \o <<"a", "/", "b", ":", "1", "2", "]", " ", "m", "x">>
\* not a klog line
LineBad == <<"n", "o", "t", " ", "k", "l", "o", "g">>
\* a valid header, path and number, ending with the space after ']'
LineEnd == Header("I") \o <<"a", "/", "b", ":", "1", "]", " ">>
LineJson == JsonWrap(<<"l">>, LineHit)
\* the same line as the value of another field
LineJsonOther == JsonWrap(<<"k">>, LineHit)
\* a field whose value is not a klog line
LineJsonBad == JsonWrap(<<"l">>, LineBad)

\* a/b:1 at Info with a message that makes the line as long as the
\* scanner's token limit
LongLine == LET start == Header("I") \o <<"a", "/", "b", ":", "1", "]", " ">>
            IN start \o [i \in 1..(MaxScanTokenSize - Len(start)) |-> "m"]

SampleLines == <<LineHit, LineSev, LineAmb, LineBad, LineEnd, <<>>, LineJson,
                 LineJsonOther, LineJsonBad>>

\* a *int: nil, or the address of val
NoVerbosity == [nil |-> TRUE, val |-> 0]
VerbosityOf(n) == [nil |-> FALSE, val |-> n]

SearchList ==
    << [SourceFile |-> <<"p", "/", "a", "/", "b">>, LineNumber |-> 1, Severity |-> 0,
        Verbosity |-> NoVerbosity],
       [SourceFile |-> <<"p", "/", "a", "/", "b", "1">>, LineNumber |-> 2, Severity |-> 0,
        Verbosity |-> VerbosityOf(2)] >>

RECURSIVE SeqsUpTo(_, _)
\* the sequences over S of length at most n
SeqsUpTo(S, n) == IF n = 0 THEN {<<>>}
                  ELSE LET shorter == SeqsUpTo(S, n - 1)
                       IN shorter \cup {Append(s, x) : s \in shorter, x \in S}

RECURSIVE JoinLines(_)
\* the lines, each followed by a newline
JoinLines(ls) == IF ls = <<>> THEN <<>> ELSE Head(ls) \o <<NL>> \o JoinLines(Tail(ls))

\* the archive of the lines, with or without the newline that ends the file
ArchiveOf(ls, trailing) ==
    LET all == JoinLines(ls)
    IN IF trailing \/ all = <<>> THEN all ELSE SubSeq(all, 1, Len(all) - 1)

\* what the file system answers for the archive
FsOutcomes == {"ok", "lstat", "open", "mmap"}

\* every mix of at most MaxLines of the first six sample lines
PlainArchives ==
    {ArchiveOf([i \in DOMAIN ks |-> SampleLines[ks[i]]], t) :
        ks \in SeqsUpTo(1..6, MaxLines), t \in BOOLEAN}

\* the matching line, more often than a channel of four workers holds
RepeatArchives ==
    {ArchiveOf([i \in 1..n |-> LineHit], TRUE) : n \in (MaxLines + 1)..MaxRepeat}

\* for two channel groups: archives whose second line starts the second
\* chunk (the first line is no shorter than half the file), and one that
\* the first chunk takes whole
TwoGroupArchives ==
    {ArchiveOf(ls, TRUE) : ls \in {<<LineAmb, LineHit>>, <<LineAmb, LineSev>>,
                                   <<LineHit, LineEnd>>, <<LineSev, LineEnd>>,
                                   <<LineHit, LineHit>>, <<LineBad, LineHit>>}}

\* JSON-wrapped and plain lines
JsonArchives ==
    {ArchiveOf([i \in DOMAIN ks |-> SampleLines[ks[i]]], TRUE) :
        ks \in SeqsUpTo({1, 7, 8, 9}, MaxLines) \ {<<>>}}

\* every file of at most MaxBytes bytes over a letter and the newline: where
\* the chunk boundaries fall, for one, two and three chunks
ByteArchives == SeqsUpTo({"a", NL}, MaxBytes)

\* archives with a line beyond the scanner's token limit: alone, after a
\* matching line, and before one that starts the second chunk
LongArchives == {ArchiveOf(ls, TRUE) : ls \in {<<LongLine>>, <<LineHit, LongLine>>}}
LongTwoGroupArchives == {ArchiveOf(<<LongLine, LineHit>>, TRUE)}

Inputs ==
    [w : {3, 4}, field : {<<>>}, archive : PlainArchives, fs : {"ok"}]
    \cup [w : {8}, field : {<<>>}, archive : TwoGroupArchives, fs : {"ok"}]
    \cup [w : {4}, field : {<<>>}, archive : RepeatArchives, fs : {"ok"}]
    \cup [w : {4, 8, 12}, field : {<<>>}, archive : ByteArchives, fs : {"ok"}]
    \cup [w : {4}, field : {<<"l">>}, archive : JsonArchives, fs : {"ok"}]
    \cup [w : {4}, field : {<<>>}, archive : {ArchiveOf(<<LineJson, LineHit>>, TRUE)},
          fs : {"ok"}]
    \cup [w : {4}, field : {<<>>}, archive : {ArchiveOf(<<LineHit>>, TRUE)},
          fs : FsOutcomes \ {"ok"}]
    \cup [w : {1, 2}, field : {<<>>}, archive : {ArchiveOf(<<LineHit>>, TRUE)},
          fs : {"ok"}]
    \cup [w : {6, 9}, field : {<<>>}, archive : {ArchiveOf(<<LineHit>>, TRUE)},
          fs : {"ok"}]
    \cup [w : {4}, field : {<<>>}, archive : LongArchives, fs : {"ok"}]
    \cup [w : {8}, field : {<<>>}, archive : LongTwoGroupArchives, fs : {"ok"}]

\* the inputs of the runs that are followed to their end
FairInputs ==
    [w : {4}, field : {<<>>},
     archive : {ArchiveOf(ls, TRUE) : ls \in {<<>>, <<LineHit>>, <<LineBad, LineHit>>,
                                               <<LineEnd>>, <<LineHit, LineSev>>}},
     fs : {"ok"}]
    \cup [w : {8}, field : {<<>>},
          archive : {ArchiveOf(ls, TRUE) : ls \in {<<LineHit, LineEnd>>, <<LineBad, LineHit>>}},
          fs : {"ok"}]
    \cup [w : {3}, field : {<<>>}, archive : {ArchiveOf(<<LineHit>>, TRUE)}, fs : {"ok"}]
    \cup [w : {4}, field : {<<"l">>}, archive : {ArchiveOf(<<LineJson>>, TRUE)}, fs : {"ok"}]
    \cup [w : {4}, field : {<<>>}, archive : {ArchiveOf(<<LongLine>>, TRUE)}, fs : {"ok"}]
    \cup [w : {4}, field : {<<>>}, archive : {ArchiveOf(<<LineHit>>, TRUE)},
          fs : FsOutcomes \ {"ok"}]

(***************************************************************************)
(* The state of one process that calls Match.                              *)
(***************************************************************************)
VARIABLES
    numCPU,         \* runtime.NumCPU()
    jsonField,      \* options.jsonField, <<>> when none is configured
    buf,            \* the bytes of the archive file
    fs,             \* what Lstat, Open and Mmap of the archive answer
    sm,             \* the search map: fingerprint -> *LogStatement
    numMatched,     \* the package-level atomic counters
    numNotMatched,
    run,            \* the number of the current Match invocation
    returned,       \* what the Match invocations so far returned
    pc,             \* where Match (and ReadLines, which it calls) stands
    rlErr,          \* the error ReadLines returned
    lines,          \* channelGroups[g].Lines
    parsedLines,    \* channelGroups[g].ParsedLines
    results,        \* the channel results
    scannerWg,
    matcherWg,
    readerWg,
    closer,         \* the goroutine that closes the ParsedLines channels
    scanners,       \* per group, the bag of the states of its scanner goroutines
    matchers,       \* per group, the bag of the states of its matcher goroutines
    readers,        \* per chunk, the goroutine that scans it
    seekPos,        \* ReadLines' seekPos and loop index i
    chunkI,
    aborted,        \* a goroutine panicked: the process is gone
    arg,            \* a function called on its own: its arguments
    ret,            \* and what it returned
    heap            \* the maps and the buckets the Matches values point to

vars == <<numCPU, jsonField, buf, fs, sm, numMatched, numNotMatched, run, returned,
          pc, rlErr, lines, parsedLines, results, scannerWg, matcherWg, readerWg,
          closer, scanners, matchers, readers, seekPos, chunkI, aborted, arg, ret, heap>>

inputVars == <<numCPU, jsonField, buf, fs, sm>>
counterVars == <<numMatched, numNotMatched>>
readerVars == <<readers, seekPos, chunkI, readerWg, rlErr>>
callVars == <<arg, ret, heap>>
pipelineVars == <<inputVars, counterVars, readerVars, run, returned, pc, lines, parsedLines,
                  results, scannerWg, matcherWg, closer, scanners, matchers, aborted>>

workersPerGroup == 4

\* len(channelGroups)
NumGroups == numCPU \div workersPerGroup

\* the same number of workers for every group
WorkersOfEven(g) == numCPU \div NumGroups

\* the workers i of 0..workerCount-1 with i % len(channelGroups) = g - 1
WorkersOf(g) == Cardinality({i \in 0..(numCPU - 1) : i % NumGroups = g - 1})

\* make(chan, workerCount)
MakeChan == [q |-> <<>>, closed |-> FALSE]
\* cap() of the channels of Match
ChanCap == numCPU

BagSwap(B, old, new) == (B (-) SetToBag({old})) (+) SetToBag({new})

ScannerRecvState == [pc |-> "recv", rec |-> NoParsedLog]
ScannerDoneState == [pc |-> "done", rec |-> NoParsedLog]
MatcherDoneState == [pc |-> "done", hit |-> EmptyMap]

\* no function is called on its own
NoCall == [fn |-> "none"]
NoRet == [fn |-> "none"]
\* no Matches value is allocated
NoHeap == [maps |-> <<>>, cells |-> <<>>]

\* the process before its first call of Match, on the input in
PipelineInit(in) ==
    /\ numCPU = in.w
    /\ jsonField = in.field
    /\ buf = in.archive
    /\ fs = in.fs
    /\ sm = GenerateSearchMap(SearchList)
    /\ numMatched = 0
    /\ numNotMatched = 0
    /\ run = 1
    /\ returned = <<>>
    /\ pc = "call"
    /\ rlErr = FALSE
    /\ lines = <<>>
    /\ parsedLines = <<>>
    /\ results = <<>>
    /\ scannerWg = 0
    /\ matcherWg = 0
    /\ readerWg = 0
    /\ closer = [pc |-> "unborn", i |-> 0]
    /\ scanners = <<>>
    /\ matchers = <<>>
    /\ readers = <<>>
    /\ seekPos = 0
    /\ chunkI = 0
    /\ aborted = FALSE

InitWith(in) ==
    /\ PipelineInit(in)
    /\ arg = NoCall
    /\ ret = NoRet
    /\ heap = NoHeap

Init == \E in \in Inputs : InitWith(in)

(***************************************************************************)
(* Match, the calling goroutine.                                           *)
(***************************************************************************)
ErrorResult == [err |-> TRUE, Matched |-> <<>>, NumMatched |-> 0, NumNotMatched |-> 0]

\* lines 266-269: Lstat fails, Match returns the error
MatchLstatErr ==
    /\ ~aborted /\ pc = "call" /\ fs = "lstat"
    /\ returned' = Append(returned, ErrorResult)
    /\ pc' = "returned"
    /\ UNCHANGED <<callVars, inputVars, counterVars, run, lines, parsedLines, results, scannerWg,
                   matcherWg, closer, scanners, matchers, readerVars, aborted>>

\* lines 291-296 with no channel group: i % len(channelGroups) divides by zero
MatchSpawnPanic ==
    /\ ~aborted /\ pc = "call" /\ fs # "lstat"
    /\ NumGroups = 0
    /\ aborted' = TRUE
    /\ UNCHANGED <<callVars, inputVars, counterVars, run, returned, pc, lines, parsedLines, results,
                   scannerWg, matcherWg, closer, scanners, matchers, readerVars>>

\* lines 273-306: the wait groups, the channels, the closing goroutine and
\* the workerCount scanner and matcher goroutines, round-robin over the groups
MatchSpawn ==
    /\ ~aborted /\ pc = "call" /\ fs # "lstat"
    /\ NumGroups > 0
    /\ scannerWg' = numCPU
    /\ matcherWg' = numCPU
    /\ lines' = [g \in 1..NumGroups |-> MakeChan]
    /\ parsedLines' = [g \in 1..NumGroups |-> MakeChan]
    /\ closer' = [pc |-> "wait", i |-> 0]
    /\ results' = <<>>
    /\ scanners' = [g \in 1..NumGroups |->
                       [e \in {ScannerRecvState} |-> WorkersOf(g)]]
    /\ matchers' = [g \in 1..NumGroups |->
                       [e \in {[pc |-> "recv", hit |-> EmptyMap]} |-> WorkersOf(g)]]
    /\ pc' = "ReadLines"
    /\ UNCHANGED <<callVars, inputVars, counterVars, run, returned, readerVars, aborted>>

\* lines 307-309: ReadLines failed, Match returns the error
MatchReadLinesErr ==
    /\ ~aborted /\ pc = "ReadLinesReturned" /\ rlErr
    /\ returned' = Append(returned, ErrorResult)
    /\ pc' = "returned"
    /\ UNCHANGED <<callVars, inputVars, counterVars, run, lines, parsedLines, results, scannerWg,
                   matcherWg, closer, scanners, matchers, readerVars, aborted>>

\* line 311: scannerWg.Wait()
MatchScannerWait ==
    /\ ~aborted /\ pc = "ReadLinesReturned" /\ ~rlErr
    /\ scannerWg = 0
    /\ pc' = "matcherWait"
    /\ UNCHANGED <<callVars, inputVars, counterVars, run, returned, lines, parsedLines, results,
                   scannerWg, matcherWg, closer, scanners, matchers, readerVars, aborted>>

\* the counters Match puts in its result
LoadCounters == [NumMatched |-> numMatched, NumNotMatched |-> numNotMatched]

\* lines 312-324: matcherWg.Wait(), the tables of results, the counters
MatchReturn ==
    /\ ~aborted /\ pc = "matcherWait"
    /\ matcherWg = 0
    /\ returned' = Append(returned, [err |-> FALSE, Matched |-> results,
                                     NumMatched |-> LoadCounters.NumMatched,
                                     NumNotMatched |-> LoadCounters.NumNotMatched])
    /\ results' = <<>>
    /\ pc' = "returned"
    /\ UNCHANGED <<callVars, inputVars, counterVars, run, lines, parsedLines, scannerWg,
                   matcherWg, closer, scanners, matchers, readerVars, aborted>>

\* the process calls Match again, with the same search map and archive
MatchAgain ==
    /\ ~aborted /\ pc = "returned"
    /\ run < MaxRuns
    /\ ~returned[Len(returned)].err
    /\ run' = run + 1
    /\ pc' = "call"
    /\ UNCHANGED <<callVars, inputVars, counterVars, returned, lines, parsedLines, results, scannerWg,
                   matcherWg, closer, scanners, matchers, readerVars, aborted>>

\* lines 282-287: scannerWg.Wait() of the closing goroutine
CloserWait ==
    /\ ~aborted /\ closer.pc = "wait"
    /\ scannerWg = 0
    /\ closer' = [pc |-> "closing", i |-> 0]
    /\ UNCHANGED <<callVars, inputVars, counterVars, run, returned, pc, lines, parsedLines, results,
                   scannerWg, matcherWg, scanners, matchers, readerVars, aborted>>

\* close(group.ParsedLines) for the next group; closing a closed channel panics
CloserClose ==
    /\ ~aborted /\ closer.pc = "closing"
    /\ LET g == closer.i + 1
       IN IF parsedLines[g].closed
          THEN /\ aborted' = TRUE
               /\ UNCHANGED <<parsedLines, closer>>
          ELSE /\ parsedLines' = [parsedLines EXCEPT ![g].closed = TRUE]
               /\ closer' = [pc |-> IF g = NumGroups THEN "done" ELSE "closing", i |-> g]
               /\ UNCHANGED aborted
    /\ UNCHANGED <<callVars, inputVars, counterVars, run, returned, pc, lines, results,
                   scannerWg, matcherWg, scanners, matchers, readerVars>>

(***************************************************************************)
(* ReadLines, called by Match, and its reader goroutines.                  *)
(***************************************************************************)
\* lines 12-16: os.Open fails
ReadLinesOpenErr ==
    /\ ~aborted /\ pc = "ReadLines" /\ fs = "open"
    /\ rlErr' = TRUE
    /\ pc' = "ReadLinesReturned"
    /\ UNCHANGED <<callVars, inputVars, counterVars, run, returned, lines, parsedLines, results,
                   scannerWg, matcherWg, closer, scanners, matchers, readers, seekPos,
                   chunkI, readerWg, aborted>>

\* syscall.Mmap answers EINVAL for a length of 0
MmapFails == fs = "mmap" \/ Len(buf) = 0

\* lines 18-21: syscall.Mmap fails
ReadLinesMmapErr ==
    /\ ~aborted /\ pc = "ReadLines" /\ fs # "open"
    /\ MmapFails
    /\ rlErr' = TRUE
    /\ pc' = "ReadLinesReturned"
    /\ UNCHANGED <<callVars, inputVars, counterVars, run, returned, lines, parsedLines, results,
                   scannerWg, matcherWg, closer, scanners, matchers, readers, seekPos,
                   chunkI, readerWg, aborted>>

\* line 22
chunkSize == Len(buf) \div Len(lines)

\* lines 22-26: the file is mapped
ReadLinesMap ==
    /\ ~aborted /\ pc = "ReadLines" /\ fs # "open"
    /\ ~MmapFails
    /\ readerWg' = Len(lines)
    /\ seekPos' = 0
    /\ chunkI' = 0
    /\ readers' = [g \in 1..Len(lines) |-> [pc |-> "unborn", lo |-> 0, hi |-> 0, pos |-> 0]]
    /\ pc' = "chunks"
    /\ UNCHANGED <<callVars, inputVars, counterVars, run, returned, lines, parsedLines, results,
                   scannerWg, matcherWg, closer, scanners, matchers, rlErr, aborted>>

\* lines 27-53: one turn of the loop: chunk i = buf[startByte:seekPos] and
\* the goroutine that scans it (a slice with startByte > seekPos panics)
ReadLinesChunk ==
    /\ ~aborted /\ pc = "chunks"
    /\ chunkI < Len(lines)
    /\ LET end == ChunkEnd(buf, seekPos, chunkSize)
       IN IF seekPos > end \/ end > Len(buf)
          THEN /\ aborted' = TRUE
               /\ UNCHANGED <<readers, seekPos, chunkI>>
          ELSE /\ readers' = [readers EXCEPT ![chunkI + 1] =
                                 [pc |-> "scan", lo |-> seekPos, hi |-> end, pos |-> seekPos]]
               /\ seekPos' = end
               /\ chunkI' = chunkI + 1
               /\ UNCHANGED aborted
    /\ UNCHANGED <<callVars, inputVars, counterVars, run, returned, pc, lines, parsedLines, results,
                   scannerWg, matcherWg, closer, scanners, matchers, readerWg, rlErr>>

\* lines 54-55: readerWg.Wait() and return nil
ReadLinesWait ==
    /\ ~aborted /\ pc = "chunks"
    /\ chunkI = Len(lines)
    /\ readerWg = 0
    /\ rlErr' = FALSE
    /\ pc' = "ReadLinesReturned"
    /\ UNCHANGED <<callVars, inputVars, counterVars, run, returned, lines, parsedLines, results,
                   scannerWg, matcherWg, closer, scanners, matchers, readers, seekPos,
                   chunkI, readerWg, aborted>>

\* lines 44-47: scan.Scan() yields a line, which is sent on linesCh
ReaderSend(g) ==
    /\ ~aborted /\ g \in DOMAIN readers
    /\ readers[g].pc = "scan"
    /\ LET s == ScanNext(buf, readers[g].pos, readers[g].hi)
       IN /\ s.more
          /\ Len(lines[g].q) < ChanCap
          /\ lines' = [lines EXCEPT ![g].q = Append(@, s.text)]
          /\ readers' = [readers EXCEPT ![g].pos = s.next]
    /\ UNCHANGED <<callVars, inputVars, counterVars, run, returned, pc, parsedLines, results,
                   scannerWg, matcherWg, closer, scanners, matchers, seekPos, chunkI,
                   readerWg, rlErr, aborted>>

\* a producer that takes a scan error for the end of its chunk
ReaderScanErrClose(g) ==
    /\ ~aborted /\ g \in DOMAIN readers
    /\ readers[g].pc = "scan"
    /\ ScanNext(buf, readers[g].pos, readers[g].hi).err
    /\ lines' = [lines EXCEPT ![g].closed = TRUE]
    /\ readers' = [readers EXCEPT ![g].pc = "done"]
    /\ readerWg' = readerWg - 1
    /\ UNCHANGED <<callVars, inputVars, counterVars, run, returned, pc, parsedLines, results,
                   scannerWg, matcherWg, closer, scanners, matchers, seekPos, chunkI,
                   rlErr, aborted>>

\* lines 48-50 and 42: scan.Scan() returned false with scan.Err() set:
\* panic(err), which runs the deferred readerWg.Done() on its way; the
\* line queue is not closed
ReaderScanErr(g) ==
    /\ ~aborted /\ g \in DOMAIN readers
    /\ readers[g].pc = "scan"
    /\ ScanNext(buf, readers[g].pos, readers[g].hi).err
    /\ readers' = [readers EXCEPT ![g].pc = "panic"]
    /\ readerWg' = readerWg - 1
    /\ UNCHANGED <<callVars, inputVars, counterVars, run, returned, pc, lines, parsedLines, results,
                   scannerWg, matcherWg, closer, scanners, matchers, seekPos, chunkI,
                   rlErr, aborted>>

\* the panic of a producer, its deferred calls done, ends the process
ReaderPanic(g) ==
    /\ ~aborted /\ g \in DOMAIN readers
    /\ readers[g].pc = "panic"
    /\ aborted' = TRUE
    /\ UNCHANGED <<callVars, inputVars, counterVars, run, returned, pc, lines, parsedLines,
                   results, scannerWg, matcherWg, closer, scanners, matchers, readerVars>>

\* lines 48-52 and 42: the chunk is exhausted: close(linesCh), readerWg.Done()
ReaderClose(g) ==
    /\ ~aborted /\ g \in DOMAIN readers
    /\ readers[g].pc = "scan"
    /\ ~ScanNext(buf, readers[g].pos, readers[g].hi).more
    /\ ~ScanNext(buf, readers[g].pos, readers[g].hi).err
    /\ lines' = [lines EXCEPT ![g].closed = TRUE]
    /\ readers' = [readers EXCEPT ![g].pc = "done"]
    /\ readerWg' = readerWg - 1
    /\ UNCHANGED <<callVars, inputVars, counterVars, run, returned, pc, parsedLines, results,
                   scannerWg, matcherWg, closer, scanners, matchers, seekPos, chunkI,
                   rlErr, aborted>>

(***************************************************************************)
(* The scanner and matcher goroutines.  The goroutines of a group run the  *)
(* same code on the same channels: a group's goroutines are held as the    *)
(* bag of their local states.                                              *)
(***************************************************************************)
\* a scanner that sends whatever ParseLine returned, accepted or not
ScannerStepSendAll(line, field) ==
    LET msg == IF field = <<>> THEN line ELSE GetBytes(line, field)
        r == ParseLine(msg)
    IN [panic |-> r.panic, send |-> ~r.panic, rec |-> r.ls]

\* a scanner that never extracts the field and parses the raw line
ScannerStepRawLine(line, field) ==
    LET r == ParseLine(line)
    IN [panic |-> r.panic, send |-> r.ok, rec |-> IF r.ok THEN r.ls ELSE NoParsedLog]

\* the body of scanner's loop on one line: panic, or the record to send
\* (send), or nothing
ScannerStep(line, field) ==
    LET msg == IF field = <<>> THEN line ELSE GetBytes(line, field)
        r == ParseLine(msg)
    IN IF field # <<>> /\ msg = <<>> THEN [panic |-> FALSE, send |-> FALSE, rec |-> NoParsedLog]
       ELSE [panic |-> r.panic, send |-> r.ok, rec |-> IF r.ok THEN r.ls ELSE NoParsedLog]

\* lines 179-180, 186-191: a scanner receives a line and parses it
ScannerRecv(g) ==
    /\ ~aborted /\ g \in DOMAIN scanners
    /\ BagIn(ScannerRecvState, scanners[g])
    /\ lines[g].q # <<>>
    /\ LET st == ScannerStep(Head(lines[g].q), jsonField)
       IN IF st.panic
          THEN /\ aborted' = TRUE
               /\ UNCHANGED <<lines, scanners>>
          ELSE /\ lines' = [lines EXCEPT ![g].q = Tail(@)]
               /\ scanners' = IF st.send
                              THEN [scanners EXCEPT ![g] = BagSwap(@, ScannerRecvState,
                                                       [pc |-> "send", rec |-> st.rec])]
                              ELSE scanners
               /\ UNCHANGED aborted
    /\ UNCHANGED <<callVars, inputVars, counterVars, run, returned, pc, parsedLines, results,
                   scannerWg, matcherWg, closer, matchers, readerVars>>

\* lines 181-183, 192-194: parsedLines <- logStmt (a send on a closed
\* channel panics)
ScannerSend(g) ==
    /\ ~aborted /\ g \in DOMAIN scanners
    /\ \E st \in BagToSet(scanners[g]) :
        /\ st.pc = "send"
        /\ IF parsedLines[g].closed
           THEN /\ aborted' = TRUE
                /\ UNCHANGED <<parsedLines, scanners>>
           ELSE /\ Len(parsedLines[g].q) < ChanCap
                /\ parsedLines' = [parsedLines EXCEPT ![g].q = Append(@, st.rec)]
                /\ scanners' = [scanners EXCEPT ![g] = BagSwap(@, st, ScannerRecvState)]
                /\ UNCHANGED aborted
    /\ UNCHANGED <<callVars, inputVars, counterVars, run, returned, pc, lines, results,
                   scannerWg, matcherWg, closer, matchers, readerVars>>

\* a scanner that leaves as soon as it finds the line queue empty
ScannerExitOnEmpty(g) ==
    /\ ~aborted /\ g \in DOMAIN scanners
    /\ BagIn(ScannerRecvState, scanners[g])
    /\ lines[g].q = <<>>
    /\ scanners' = [scanners EXCEPT ![g] = BagSwap(@, ScannerRecvState, ScannerDoneState)]
    /\ scannerWg' = scannerWg - 1
    /\ UNCHANGED <<callVars, inputVars, counterVars, run, returned, pc, lines, parsedLines, results,
                   matcherWg, closer, matchers, readerVars, aborted>>

\* the range over lines ends (closed and drained): scannerWg.Done()
ScannerExit(g) ==
    /\ ~aborted /\ g \in DOMAIN scanners
    /\ BagIn(ScannerRecvState, scanners[g])
    /\ lines[g].q = <<>> /\ lines[g].closed
    /\ scanners' = [scanners EXCEPT ![g] = BagSwap(@, ScannerRecvState, ScannerDoneState)]
    /\ scannerWg' = scannerWg - 1
    /\ UNCHANGED <<callVars, inputVars, counterVars, run, returned, pc, lines, parsedLines, results,
                   matcherWg, closer, matchers, readerVars, aborted>>

\* lines 207-213: the table after record p, which hits call-site stmt
Hit(hit, stmt, p) ==
    IF stmt \in DOMAIN hit THEN [hit EXCEPT ![stmt] = Append(@, p)]
    ELSE [k \in DOMAIN hit \cup {stmt} |-> IF k = stmt THEN <<p>> ELSE hit[k]]

\* matchers of a group that write to one table of the group
MatcherRecvShared(g) ==
    /\ ~aborted /\ g \in DOMAIN matchers
    /\ parsedLines[g].q # <<>>
    /\ \E st \in BagToSet(matchers[g]) :
        /\ st.pc = "recv"
        /\ LET p == Head(parsedLines[g].q)
               fp == ParsedLogFingerprint(p)
           IN IF fp \in DOMAIN sm
              THEN /\ matchers' = [matchers EXCEPT ![g] =
                                      [e \in {[st EXCEPT !.hit = Hit(@, sm[fp], p)]} |->
                                          BagCardinality(matchers[g])]]
                   /\ numMatched' = numMatched + 1
                   /\ UNCHANGED numNotMatched
              ELSE /\ numNotMatched' = numNotMatched + 1
                   /\ UNCHANGED <<matchers, numMatched>>
    /\ parsedLines' = [parsedLines EXCEPT ![g].q = Tail(@)]
    /\ UNCHANGED <<callVars, inputVars, run, returned, pc, lines, results, scannerWg, matcherWg,
                   closer, scanners, readerVars, aborted>>

\* lines 206-218: a matcher receives a record and looks its fingerprint up
MatcherRecv(g) ==
    /\ ~aborted /\ g \in DOMAIN matchers
    /\ parsedLines[g].q # <<>>
    /\ \E st \in BagToSet(matchers[g]) :
        /\ st.pc = "recv"
        /\ LET p == Head(parsedLines[g].q)
               fp == ParsedLogFingerprint(p)
           IN IF fp \in DOMAIN sm
              THEN /\ matchers' = [matchers EXCEPT ![g] =
                                      BagSwap(@, st, [st EXCEPT !.hit = Hit(@, sm[fp], p)])]
                   /\ numMatched' = numMatched + 1
                   /\ UNCHANGED numNotMatched
              ELSE /\ numNotMatched' = numNotMatched + 1
                   /\ UNCHANGED <<matchers, numMatched>>
    /\ parsedLines' = [parsedLines EXCEPT ![g].q = Tail(@)]
    /\ UNCHANGED <<callVars, inputVars, run, returned, pc, lines, results, scannerWg, matcherWg,
                   closer, scanners, readerVars, aborted>>

\* lines 219, 298-299: the range over parsed ends: results <- hit, matcherWg.Done()
MatcherExit(g) ==
    /\ ~aborted /\ g \in DOMAIN matchers
    /\ parsedLines[g].q = <<>> /\ parsedLines[g].closed
    /\ \E st \in BagToSet(matchers[g]) :
        /\ st.pc = "recv"
        /\ Len(results) < ChanCap
        /\ results' = Append(results, st.hit)
        /\ matchers' = [matchers EXCEPT ![g] = BagSwap(@, st, MatcherDoneState)]
    /\ matcherWg' = matcherWg - 1
    /\ UNCHANGED <<callVars, inputVars, counterVars, run, returned, pc, lines, parsedLines,
                   scannerWg, closer, scanners, readerVars, aborted>>

(***************************************************************************)
(* The specifications.                                                     *)
(***************************************************************************)
\* the channel groups: at most three, for the twelve CPUs of Inputs
Groups == 1..3

Next ==
    \/ MatchLstatErr
    \/ MatchSpawnPanic
    \/ MatchSpawn
    \/ MatchReadLinesErr
    \/ MatchScannerWait
    \/ MatchReturn
    \/ MatchAgain
    \/ CloserWait
    \/ CloserClose
    \/ ReadLinesOpenErr
    \/ ReadLinesMmapErr
    \/ ReadLinesMap
    \/ ReadLinesChunk
    \/ ReadLinesWait
    \/ \E g \in Groups : ReaderSend(g)
    \/ \E g \in Groups : ReaderClose(g)
    \/ \E g \in Groups : ReaderScanErr(g)
    \/ \E g \in Groups : ReaderPanic(g)
    \/ \E g \in Groups : ScannerRecv(g)
    \/ \E g \in Groups : ScannerSend(g)
    \/ \E g \in Groups : ScannerExit(g)
    \/ \E g \in Groups : MatcherRecv(g)
    \/ \E g \in Groups : MatcherExit(g)

Spec == Init /\ [][Next]_vars

InitFair == \E in \in FairInputs : InitWith(in)

\* a step of the invocation under way, by whichever goroutine
Progress ==
    \/ MatchLstatErr
    \/ MatchSpawnPanic
    \/ MatchSpawn
    \/ MatchReadLinesErr
    \/ MatchScannerWait
    \/ MatchReturn
    \/ CloserWait
    \/ CloserClose
    \/ ReadLinesOpenErr
    \/ ReadLinesMmapErr
    \/ ReadLinesMap
    \/ ReadLinesChunk
    \/ ReadLinesWait
    \/ \E g \in Groups : ReaderSend(g)
    \/ \E g \in Groups : ReaderClose(g)
    \/ \E g \in Groups : ReaderScanErr(g)
    \/ \E g \in Groups : ReaderPanic(g)
    \/ \E g \in Groups : ScannerRecv(g)
    \/ \E g \in Groups : ScannerSend(g)
    \/ \E g \in Groups : ScannerExit(g)
    \/ \E g \in Groups : MatcherRecv(g)
    \/ \E g \in Groups : MatcherExit(g)

\* the Go scheduler: while some goroutine can take a step, one does.  No
\* step of an invocation is ever undone, so this keeps every goroutine
\* going until it exits or blocks for good.  Whether the process calls
\* Match again is up to the process.
Fairness == WF_vars(Progress)

FairSpec == InitFair /\ [][Next]_vars /\ Fairness

(***************************************************************************)
(* ParseLine called on its own, on one line.                               *)
(***************************************************************************)
\* the line with byte i replaced by c
SetByte(line, i, c) == [line EXCEPT ![i + 1] = c]

\* the matching line with one byte of its header replaced
HeaderBytes == {" ", "0", "1", "2", "3", "4", "5", "6", "9", ":", ".",
                "I", "W", "E", "F", "X", "/"}
HeaderLines == {SetByte(LineHit, i, c) : i \in 0..29, c \in HeaderBytes}

\* the matching line cut short
PrefixLines == {SubSeq(LineHit, 1, n) : n \in 0..Len(LineHit)}

\* what follows a valid header: path, ':', number, ']', space, message,
\* each well or ill formed
TailPaths == {<<"a", "/", "b">>, <<"a", "b">>, <<"/", "b">>, <<"a", "/">>,
              <<"a", "/", "b", "/", "c">>, <<"a", "/", "/", "b">>, <<"/", "a", "/", "b">>,
              <<"a", " ", "b", "/", "c">>, <<"a", "/", "b", "$">>, <<>>,
              <<"A", "_", "z", "-", "9", ".", "/", "f", ".", "g", "o">>,
              <<"a", ":", "b", "/", "c">>}
TailNumbers == {<<"1">>, <<"1", "2">>, <<"0">>, <<"0", "0">>, <<"0", "0", "7">>, <<>>,
                <<"1", "x">>, <<"x">>, <<"-", "1">>, MaxIntDigits,
                <<"2", "1", "4", "7", "4", "8", "3", "6", "4", "8">>,
                <<"9", "9", "9", "9", "9", "9", "9", "9", "9", "9", "9", "9", "9", "9",
                  "9", "9", "9", "9", "9", "9">>}
TailClosers == {<<"]">>, <<>>, <<"]", "]">>}
TailSpaces == {<<" ">>, <<>>, <<"x">>}
TailMessages == {<<>>, <<"m">>, <<"m", "x">>, <<"m", " ", "x", "]", ":">>}
TailLines ==
    {Header("W") \o path \o <<":">> \o num \o close \o sp \o msg :
        path \in TailPaths, num \in TailNumbers, close \in TailClosers,
        sp \in TailSpaces, msg \in TailMessages}

\* the lines ParseLine is called on
ParseLines == HeaderLines \cup PrefixLines \cup TailLines
                 \cup {LineHit, LineSev, LineAmb, LineBad, LineEnd, LineJson}

\* the pipeline is not running
IdleInput == [w |-> 4, field |-> <<>>, archive |-> <<>>, fs |-> "ok"]

InitParse ==
    \E l \in ParseLines :
        /\ PipelineInit(IdleInput)
        /\ arg = [fn |-> "ParseLine", line |-> l]
        /\ ret = NoRet
        /\ heap = NoHeap

\* ls, ok := ParseLine(line)
CallParseLine ==
    /\ arg.fn = "ParseLine" /\ ret = NoRet
    /\ LET r == ParseLine(arg.line)
       IN ret' = [fn |-> "ParseLine", ok |-> r.ok, panic |-> r.panic, ls |-> r.ls]
    /\ UNCHANGED <<arg, heap, pipelineVars>>

NextParse == CallParseLine

ParseSpec == InitParse /\ [][NextParse]_vars

(***************************************************************************)
(* match.go: AggregateResults called on the tables the matchers returned.  *)
(* Matches is map[*LogStatement]*[]ParsedLog: a Matches value is the id of *)
(* a map in heap.maps, from call-sites to the addresses of buckets, and    *)
(* heap.cells holds the slice behind each address.  The bucket that map i  *)
(* allocates for call-site k is at address <<i, k>>.                       *)
(***************************************************************************)
MaxTables == 3
MaxHits == 2

\* the line of the call-site with another message
LineHitAgain == Header("I") \o <<"a", "/", "b", ":", "1", "]", " ", "n", "x">>

\* records that hit a call-site: two of the first, one of the second
HitRecords == {ParseLine(l).ls : l \in {LineHit, LineHitAgain, LineAmb}}

RECURSIVE MatcherHits(_, _, _)
\* lines 205-219: the table a matcher returns for the records ps; records
\* without a call-site leave it as it is
MatcherHits(hit, searchMap, ps) ==
    IF ps = <<>> THEN hit
    ELSE LET fp == ParsedLogFingerprint(Head(ps))
         IN MatcherHits(IF fp \in DOMAIN searchMap THEN Hit(hit, searchMap[fp], Head(ps))
                        ELSE hit,
                        searchMap, Tail(ps))

\* the tables of matchers that received at most MaxHits records
MatcherTables ==
    {MatcherHits(<<>>, GenerateSearchMap(SearchList), ps) : ps \in SeqsUpTo(HitRecords, MaxHits)}

\* the heap that holds the tables ts, one map and its own buckets for each
HeapOf(ts) ==
    [maps |-> [i \in DOMAIN ts |-> [k \in DOMAIN ts[i] |-> <<i, k>>]],
     cells |-> [a \in {<<i, k>> : i \in DOMAIN ts, k \in DOMAIN SearchList} \cap
                       UNION {{<<i, k>> : k \in DOMAIN ts[i]} : i \in DOMAIN ts} |->
                   ts[a[1]][a[2]]]]

\* the table behind a Matches value, buckets read through their pointers
Deref(h, m) == [k \in DOMAIN h.maps[m] |-> h.cells[h.maps[m][k]]]

\* a loop body that replaces the bucket of first by the bucket of result
MergeResultOverwrite(h, first, result) ==
    LET f == h.maps[first]
        r == h.maps[result]
        both == DOMAIN f \cap DOMAIN r
    IN [maps |-> [h.maps EXCEPT ![first] =
                     [k \in DOMAIN f \cup DOMAIN r |-> IF k \in DOMAIN f THEN f[k] ELSE r[k]]],
        cells |-> [a \in DOMAIN h.cells |->
                     IF \E k \in both : f[k] = a
                     THEN h.cells[r[CHOOSE k \in both : f[k] = a]]
                     ELSE h.cells[a]]]

\* lines 330-336: for k, v := range result: a call-site first lacks gets
\* result's pointer (first[k] = v), the bucket of any other grows in place
\* by result's records (*s = append(*s, *v...)).  The keys are visited in
\* any order: each visit touches the entry and the bucket of its key only.
MergeResult(h, first, result) ==
    LET f == h.maps[first]
        r == h.maps[result]
        both == DOMAIN f \cap DOMAIN r
    IN [maps |-> [h.maps EXCEPT ![first] =
                     [k \in DOMAIN f \cup DOMAIN r |-> IF k \in DOMAIN f THEN f[k] ELSE r[k]]],
        cells |-> [a \in DOMAIN h.cells |->
                     IF \E k \in both : f[k] = a
                     THEN h.cells[a] \o h.cells[r[CHOOSE k \in both : f[k] = a]]
                     ELSE h.cells[a]]]

RECURSIVE AggregateFrom(_, _, _)
\* line 329: for _, result := range results[1:]
AggregateFrom(h, first, rest) ==
    IF rest = <<>> THEN h
    ELSE AggregateFrom(MergeResult(h, first, Head(rest)), first, Tail(rest))

\* lines 327-339: first := results[0]; ...; return first.  The heap the
\* call leaves and the Matches value it returns
AggregateResults(h, res) ==
    [heap |-> AggregateFrom(h, res[1], Tail(res)), first |-> res[1]]

\* the tables of up to MaxTables matchers, in every order
InitAggregate ==
    \E ts \in SeqsUpTo(MatcherTables, MaxTables) \ {<<>>} :
        /\ PipelineInit(IdleInput)
        /\ arg = [fn |-> "AggregateResults", tables |-> ts,
                  results |-> [i \in DOMAIN ts |-> i]]
        /\ ret = NoRet
        /\ heap = HeapOf(ts)

\* results[i..j] = AggregateResults(results[i..j]): tables that stand next
\* to each other are folded into one, until one is left
CallAggregateResults(i, j) ==
    /\ arg.fn = "AggregateResults"
    /\ i \in 1..Len(arg.results) /\ j \in i..Len(arg.results)
    /\ i < j \/ ret = NoRet
    /\ LET r == AggregateResults(heap, SubSeq(arg.results, i, j))
       IN /\ heap' = r.heap
          /\ arg' = [arg EXCEPT !.results = SubSeq(@, 1, i - 1) \o <<r.first>> \o
                                            SubSeq(@, j + 1, Len(@))]
          /\ ret' = [fn |-> "AggregateResults", first |-> r.first,
                     calls |-> IF ret = NoRet THEN 1 ELSE ret.calls + 1]
    /\ UNCHANGED pipelineVars

NextAggregate == \E i, j \in 1..MaxTables : CallAggregateResults(i, j)

AggregateSpec == InitAggregate /\ [][NextAggregate]_vars

MaxCalls == 2

\* the hit count of every call-site of a table
HitCounts(hit) == [k \in DOMAIN hit |-> Len(hit[k])]

\* AggregateResults(results.Matched), called again on the same
\* MatchResults: the tables stay where they are on the heap, and the hit
\* counts of the table each call returns are kept in ret
CallAggregateAgain ==
    /\ arg.fn = "AggregateResults"
    /\ IF ret = NoRet THEN TRUE ELSE Len(ret.counts) < MaxCalls
    /\ LET r == AggregateResults(heap, arg.results)
       IN /\ heap' = r.heap
          /\ ret' = [fn |-> "AggregateResults", first |-> r.first,
                     counts |-> (IF ret = NoRet THEN <<>> ELSE ret.counts) \o
                                <<HitCounts(Deref(r.heap, r.first))>>]
    /\ UNCHANGED <<arg, pipelineVars>>

NextAgain == CallAggregateAgain

AgainSpec == InitAggregate /\ [][NextAgain]_vars

(***************************************************************************)
(* match.go: SortMatches called on a table of the aggregator or of         *)
(* FindMissed.  The table is held by value: a call-site maps to its bucket *)
(* or to NilBucket, the nil pointer FindMissed stores.                     *)
(***************************************************************************)
MaxSorts == 2

\* the bytes of the model in ASCII order
Ascii == <<"\n", "\r", " ", "\"", "-", ".", "/",
           "0", "1", "2", "3", "4", "5", "6", "7", "8", "9", ":",
           "A", "B", "C", "D", "E", "F", "G", "H", "I", "J", "K", "L", "M",
           "N", "O", "P", "Q", "R", "S", "T", "U", "V", "W", "X", "Y", "Z",
           "[", "\\", "]", "_",
           "a", "b", "c", "d", "e", "f", "g", "h", "i", "j", "k", "l", "m",
           "n", "o", "p", "q", "r", "s", "t", "u", "v", "w", "x", "y", "z",
           "{", "}">>

ByteValue(c) == CHOOSE i \in DOMAIN Ascii : Ascii[i] = c

RECURSIVE StringGreater(_, _)
\* a > b on Go strings: byte by byte, a proper prefix being the smaller
StringGreater(a, b) ==
    IF a = <<>> THEN FALSE
    ELSE IF b = <<>> THEN TRUE
    ELSE IF a[1] # b[1] THEN ByteValue(a[1]) > ByteValue(b[1])
    ELSE StringGreater(Tail(a), Tail(b))

\* the call-sites of the sorted tables: two lines of one file, a second
\* file of the same directory, and a file whose path continues the first
SortList ==
    << [SourceFile |-> <<"p", "/", "a">>, LineNumber |-> 1, Severity |-> 0],
       [SourceFile |-> <<"p", "/", "a">>, LineNumber |-> 2, Severity |-> 0],
       [SourceFile |-> <<"p", "/", "b">>, LineNumber |-> 1, Severity |-> 0],
       [SourceFile |-> <<"p", "/", "a", "b">>, LineNumber |-> 1, Severity |-> 2] >>

\* a *[]ParsedLog: nil, or the address of the slice hits
NilBucket == [nil |-> TRUE, hits |-> <<>>]
BucketOf(hits) == [nil |-> FALSE, hits |-> hits]

\* the buckets a table may hold for a call-site: nil, or one or two records
SortBuckets ==
    {NilBucket} \cup {BucketOf([i \in 1..n |-> ParseLine(LineHit).ls]) : n \in 1..MaxHits}

\* the tables over the call-sites of SortList
SortTables ==
    UNION {[ks -> SortBuckets] : ks \in SUBSET DOMAIN SortList}

\* the orders in which a range over a map with the keys ks may visit them
RangeOrders(ks) ==
    {o \in [1..Cardinality(ks) -> ks] : \A i, j \in DOMAIN o : o[i] = o[j] => i = j}

\* lines 436-446: the entries in the order the range visited the map, a
\* nil bucket read as no hits
EntriesOf(res, order) ==
    [i \in DOMAIN order |->
        [Log |-> order[i],
         Hits |-> IF res[order[i]].nil THEN <<>> ELSE res[order[i]].hits]]

\* a comparison on the number of hits alone
LessByHits(list, a, b) == Len(a.Hits) > Len(b.Hits)

\* lines 448-453: the less function given to sort.Slice
Less(list, a, b) ==
    IF Len(a.Hits) = Len(b.Hits)
    THEN StringGreater(list[a.Log].SourceFile, list[b.Log].SourceFile)
    ELSE Len(a.Hits) > Len(b.Hits)

RECURSIVE InsertEntry(_, _, _)
\* for j := i; j > a && less(j, j-1); j-- { swap(j, j-1) }
InsertEntry(list, sorted, e) ==
    IF sorted = <<>> \/ ~Less(list, e, sorted[Len(sorted)]) THEN Append(sorted, e)
    ELSE Append(InsertEntry(list, SubSeq(sorted, 1, Len(sorted) - 1), e), sorted[Len(sorted)])

RECURSIVE InsertionSort(_, _, _)
\* sort.Slice on fewer than twelve elements (seven, for a Go older than
\* 1.19) is an insertion sort from the left
InsertionSort(list, sorted, entries) ==
    IF entries = <<>> THEN sorted
    ELSE InsertionSort(list, InsertEntry(list, sorted, Head(entries)), Tail(entries))

\* lines 434-456, the range having visited the map in the given order
SortMatches(list, res, order) == InsertionSort(list, <<>>, EntriesOf(res, order))

InitSort ==
    \E t \in SortTables :
        /\ PipelineInit(IdleInput)
        /\ arg = [fn |-> "SortMatches", results |-> t]
        /\ ret = [fn |-> "SortMatches", sorted |-> <<>>]
        /\ heap = NoHeap

\* sorted := SortMatches(results), once more on the same table
CallSortMatches ==
    /\ arg.fn = "SortMatches"
    /\ Len(ret.sorted) < MaxSorts
    /\ \E order \in RangeOrders(DOMAIN arg.results) :
           ret' = [ret EXCEPT !.sorted = Append(@, SortMatches(SortList, arg.results, order))]
    /\ UNCHANGED <<arg, heap, pipelineVars>>

NextSort == CallSortMatches

SortSpec == InitSort /\ [][NextSort]_vars

(***************************************************************************)
(* cmd/match.go: the ranked list the match command prints after Match,     *)
(* AggregateResults and AnalyzeMatches.                                    *)
(***************************************************************************)
\* the default of --top
DefaultTop == 20

\* the values of --top drawn beside the default
TopFlags == {0, 1, 2, DefaultTop}

\* s[:high] on a slice of length and capacity Len(s): the slice, or the
\* run-time panic "slice bounds out of range"
SliceTo(s, high) ==
    IF high < 0 \/ high > Len(s) THEN [panic |-> TRUE, slice |-> <<>>]
    ELSE [panic |-> FALSE, slice |-> SubSeq(s, 1, high)]

\* cmd/match.go lines 94-104: what is handed to printEntries for the
\* sorted entries, nothing when there are none
PrintTop(sorted, showAll, top) ==
    IF Len(sorted) = 0 THEN [panic |-> FALSE, slice |-> <<>>]
    ELSE SliceTo(sorted, IF showAll THEN Len(sorted) ELSE top)

InitPrint ==
    \E t \in SortTables, all \in BOOLEAN, n \in TopFlags :
        /\ PipelineInit(IdleInput)
        /\ arg = [fn |-> "matchCmd", aggregated |-> t, showAll |-> all, top |-> n]
        /\ ret = NoRet
        /\ heap = NoHeap

\* sorted := inator.SortMatches(aggregated); ...; printEntries(sorted[:top])
MatchCmdPrint ==
    /\ arg.fn = "matchCmd" /\ ret = NoRet
    /\ \E order \in RangeOrders(DOMAIN arg.aggregated) :
           LET sorted == SortMatches(SortList, arg.aggregated, order)
               r == PrintTop(sorted, arg.showAll, arg.top)
           IN ret' = [fn |-> "matchCmd", panic |-> r.panic, sorted |-> sorted,
                      printed |-> r.slice]
    /\ UNCHANGED <<arg, heap, pipelineVars>>

NextPrint == MatchCmdPrint

PrintSpec == InitPrint /\ [][NextPrint]_vars

(***************************************************************************)
(* match.go: AnalyzeMatches called on a search map and a table.  The       *)
(* counts are modelled; the Percent fields, floating-point quotients of    *)
(* the counts, are left out.                                               *)
(***************************************************************************)
\* the call-sites analysed: every severity, Info and Error with and without
\* a verbosity, and a second statement with the fingerprint of the first
AnalyzeList ==
    << [SourceFile |-> <<"p", "/", "a">>, LineNumber |-> 1, Severity |-> 0,
        Verbosity |-> NoVerbosity],
       [SourceFile |-> <<"p", "/", "a">>, LineNumber |-> 2, Severity |-> 0,
        Verbosity |-> VerbosityOf(2)],
       [SourceFile |-> <<"p", "/", "a">>, LineNumber |-> 3, Severity |-> 1,
        Verbosity |-> NoVerbosity],
       [SourceFile |-> <<"p", "/", "a">>, LineNumber |-> 4, Severity |-> 2,
        Verbosity |-> VerbosityOf(2)],
       [SourceFile |-> <<"p", "/", "a">>, LineNumber |-> 5, Severity |-> 3,
        Verbosity |-> NoVerbosity],
       [SourceFile |-> <<"q", "/", "p", "/", "a">>, LineNumber |-> 1, Severity |-> 0,
        Verbosity |-> VerbosityOf(2)] >>

\* the call-sites the search map of a list retains
Retained(list) ==
    LET searchMap == GenerateSearchMap(list)
    IN {searchMap[fp] : fp \in DOMAIN searchMap}

\* the buckets a table may hold: nil, an empty slice, one record
AnalyzeBuckets == {NilBucket, BucketOf(<<>>), BucketOf(<<ParseLine(LineHit).ls>>)}

\* the tables over the retained call-sites
AnalyzeTables == UNION {[ks -> AnalyzeBuckets] : ks \in SUBSET Retained(AnalyzeList)}

\* a test that takes every bucket that is not nil as hit
IsMissedUnlessNil(res, v) == v \notin DOMAIN res \/ res[v].nil

\* line 383: !ok || matched == nil || len(*matched) == 0
IsMissed(res, v) == v \notin DOMAIN res \/ res[v].nil \/ res[v].hits = <<>>

\* m[k]++ on a map[int]int64
Incr(m, k) == [j \in DOMAIN m \cup {k} |-> IF j \in DOMAIN m /\ j # k THEN m[j]
                                          ELSE IF j \in DOMAIN m THEN m[j] + 1 ELSE 1]

\* lines 370-377: the result before the loop
ZeroResult ==
    [NumHitTotal |-> 0, NumMissedTotal |-> 0,
     NumInfoHit |-> EmptyMap, NumInfoMissed |-> EmptyMap,
     NumWarnHit |-> 0, NumWarnMissed |-> 0,
     NumErrorHit |-> EmptyMap, NumErrorMissed |-> EmptyMap,
     NumFatalHit |-> 0, NumFatalMissed |-> 0]

\* lines 379-408: the body of the loop for the call-site v
AnalyzeOne(list, res, result, v) ==
    LET verbosity == IF list[v].Verbosity.nil THEN -1 ELSE list[v].Verbosity.val
        sev == list[v].Severity
    IN IF IsMissed(res, v)
       THEN LET r == [result EXCEPT !.NumMissedTotal = @ + 1]
            IN CASE sev = 0 -> [r EXCEPT !.NumInfoMissed = Incr(@, verbosity)]
                 [] sev = 1 -> [r EXCEPT !.NumWarnMissed = @ + 1]
                 [] sev = 2 -> [r EXCEPT !.NumErrorMissed = Incr(@, verbosity)]
                 [] sev = 3 -> [r EXCEPT !.NumFatalMissed = @ + 1]
                 [] OTHER -> r
       ELSE LET r == [result EXCEPT !.NumHitTotal = @ + 1]
            IN CASE sev = 0 -> [r EXCEPT !.NumInfoHit = Incr(@, verbosity)]
                 [] sev = 1 -> [r EXCEPT !.NumWarnHit = @ + 1]
                 [] sev = 2 -> [r EXCEPT !.NumErrorHit = Incr(@, verbosity)]
                 [] sev = 3 -> [r EXCEPT !.NumFatalHit = @ + 1]
                 [] OTHER -> r

RECURSIVE AnalyzeFrom(_, _, _, _)
\* line 378: for _, v := range sm, the call-sites still to visit being vs
\* (the counts do not depend on the order of the visits)
AnalyzeFrom(list, res, result, vs) ==
    IF vs = {} THEN result
    ELSE LET v == CHOOSE x \in vs : TRUE
         IN AnalyzeFrom(list, res, AnalyzeOne(list, res, result, v), vs \ {v})

\* lines 369-426, without the Percent fields
AnalyzeMatches(list, res) == AnalyzeFrom(list, res, ZeroResult, Retained(list))

\* a test that takes a call-site of the aggregate as missed
FindMissedInverted(searchMap, aggregated) ==
    [v \in {searchMap[fp] : fp \in DOMAIN searchMap} \cap DOMAIN aggregated |-> NilBucket]

\* lines 341-349: missed[v] = nil for every call-site v of the search map
\* that is no key of the aggregate
FindMissed(searchMap, aggregated) ==
    [v \in {searchMap[fp] : fp \in DOMAIN searchMap} \ DOMAIN aggregated |-> NilBucket]

InitAnalyze ==
    \E t \in AnalyzeTables :
        /\ PipelineInit(IdleInput)
        /\ arg = [fn |-> "AnalyzeMatches", results |-> t]
        /\ ret = NoRet
        /\ heap = NoHeap

\* analysis := AnalyzeMatches(sm, results)
CallAnalyzeMatches ==
    /\ arg.fn = "AnalyzeMatches" /\ ret = NoRet
    /\ ret' = [fn |-> "AnalyzeMatches", result |-> AnalyzeMatches(AnalyzeList, arg.results)]
    /\ UNCHANGED <<arg, heap, pipelineVars>>

NextAnalyze == CallAnalyzeMatches

AnalyzeSpec == InitAnalyze /\ [][NextAnalyze]_vars

(***************************************************************************)
(* SearchList.GenerateSearchMap with its second result, the collisions,    *)
(* called on search lists whose statements share fingerprints.             *)
(***************************************************************************)
MaxStatements == 3

\* statements to build search lists from: p/a/b:1 and q/a/b:1 have one
\* fingerprint, a/b1:2 and a/b:12 hash the same bytes, and p/a/b:1 at
\* Warning shares its fingerprint with none
ListStatements ==
    { [SourceFile |-> <<"p", "/", "a", "/", "b">>, LineNumber |-> 1, Severity |-> 0],
      [SourceFile |-> <<"q", "/", "a", "/", "b">>, LineNumber |-> 1, Severity |-> 0],
      [SourceFile |-> <<"a", "/", "b", "1">>, LineNumber |-> 2, Severity |-> 0],
      [SourceFile |-> <<"a", "/", "b">>, LineNumber |-> 12, Severity |-> 0],
      [SourceFile |-> <<"p", "/", "a", "/", "b">>, LineNumber |-> 1, Severity |-> 1] }

\* a first collision that does not list the retained statement
ExistingOrCollisionsBare(collisions, fp, existing) ==
    IF fp \in DOMAIN collisions THEN collisions[fp] ELSE <<>>

\* part_002 lines 327-329: the collisions of fp before the append, the
\* first time starting with the retained statement
ExistingOrCollisions(collisions, fp, existing) ==
    IF fp \in DOMAIN collisions THEN collisions[fp] ELSE <<existing>>

RECURSIVE CollisionsFrom(_, _, _, _)
\* part_002 lines 322-332: the loop from statement i on, returning the
\* collisions
CollisionsFrom(list, i, searchMap, collisions) ==
    IF i > Len(list) THEN collisions
    ELSE LET fp == LogStatementFingerprint(list[i])
         IN IF fp \notin DOMAIN searchMap
            THEN CollisionsFrom(list, i + 1,
                     [k \in DOMAIN searchMap \cup {fp} |-> IF k = fp THEN i ELSE searchMap[k]],
                     collisions)
            ELSE CollisionsFrom(list, i + 1, searchMap,
                     [k \in DOMAIN collisions \cup {fp} |->
                         IF k = fp
                         THEN Append(ExistingOrCollisions(collisions, fp, searchMap[fp]), i)
                         ELSE collisions[k]])

\* the second result of GenerateSearchMap
GenerateCollisions(list) == CollisionsFrom(list, 1, EmptyMap, EmptyMap)

InitIndex ==
    \E l \in SeqsUpTo(ListStatements, MaxStatements) :
        /\ PipelineInit(IdleInput)
        /\ arg = [fn |-> "GenerateSearchMap", list |-> l]
        /\ ret = NoRet
        /\ heap = NoHeap

\* cmd/match.go line 47: sm, collisions := sl.GenerateSearchMap()
CallGenerateSearchMap ==
    /\ arg.fn = "GenerateSearchMap" /\ ret = NoRet
    /\ ret' = [fn |-> "GenerateSearchMap", sm |-> GenerateSearchMap(arg.list),
               collisions |-> GenerateCollisions(arg.list)]
    /\ UNCHANGED <<arg, heap, pipelineVars>>

NextIndex == CallGenerateSearchMap

IndexSpec == InitIndex /\ [][NextIndex]_vars

(***************************************************************************)
(* What the properties speak of.                                           *)
(***************************************************************************)
Range(f) == {f[x] : x \in DOMAIN f}

\* the non-empty lines among the tokens
NonEmptyLines(toks) == SelectSeq(toks, LAMBDA l : l # <<>>)

RECURSIVE Flatten(_)
\* the sequences of ss, one after the other
Flatten(ss) == IF ss = <<>> THEN <<>> ELSE Head(ss) \o Flatten(Tail(ss))

\* the lines producer g has sent on its line queue so far
Pushed(g) == ScanAll(buf, readers[g].lo, readers[g].pos)

\* the lines all producers have sent so far, in chunk order
AllPushed == Flatten([g \in DOMAIN readers |-> Pushed(g)])

\* the lines of the archive as one scanner yields them on the whole file
ArchiveLines == ScanAll(buf, 0, Len(buf))

\* the scanner of a producer has reported an error: the process is ending
ScanFailed == \E g \in DOMAIN readers : readers[g].pc = "panic"

\* ReadLines has started every producer and every producer has finished
ProducersDone ==
    /\ readers # <<>>
    /\ \A g \in DOMAIN readers : readers[g].pc = "done"

\* q is what remains of s after some of its first elements were taken
IsSuffix(q, s) ==
    /\ Len(q) <= Len(s)
    /\ q = SubSeq(s, Len(s) - Len(q) + 1, Len(s))

\* C1: every non-empty newline-delimited line of the archive is pushed into
\* a line queue exactly once across the G producers: what a queue holds is
\* the end of what its producer has pushed, in order, and when ReadLines
\* returns every producer has finished and the non-empty lines pushed, in
\* chunk order, are the non-empty lines of the archive, none split, doubled
\* or dropped
C1_EachLineOnce ==
    /\ \A g \in DOMAIN readers :
           (readers[g].pc # "unborn" /\ g \in DOMAIN lines /\ lines[g].q # <<>>)
               => IsSuffix(lines[g].q, Pushed(g))
    /\ (pc = "ReadLinesReturned" /\ ~rlErr /\ ~ScanFailed)
           => /\ ProducersDone
              /\ NonEmptyLines(AllPushed) = NonEmptyLines(ArchiveLines)

\* three producers have finished an archive of several lines, of which the
\* first chunk was extended to the newline and the second is not empty
C1_Witness ==
    /\ pc = "ReadLinesReturned" /\ ~rlErr
    /\ Len(readers) = 3
    /\ Len(NonEmptyLines(ArchiveLines)) >= 2
    /\ readers[1].hi > chunkSize + 1
    /\ readers[2].hi > readers[2].lo

\* the number of lines of the archive the parser accepts
AcceptedCount ==
    Len(SelectSeq(ArchiveLines, LAMBDA l : ScannerStep(l, jsonField).send))

RECURSIVE TableHits(_)
\* the sum of the bucket lengths of one per-worker table
TableHits(hit) ==
    IF DOMAIN hit = {} THEN 0
    ELSE LET k == CHOOSE x \in DOMAIN hit : TRUE
         IN Len(hit[k]) + TableHits([x \in DOMAIN hit \ {k} |-> hit[x]])

RECURSIVE TotalHits(_)
\* the sum over the per-worker tables
TotalHits(tables) ==
    IF tables = <<>> THEN 0 ELSE TableHits(Head(tables)) + TotalHits(Tail(tables))

\* the Match invocations that returned without error
Returns == {i \in DOMAIN returned : ~returned[i].err}

\* C2: when a Match invocation returns, NumMatched + NumNotMatched is the
\* number of lines of its archive that the parser accepted
C2_CountsAreAccepted ==
    \A i \in Returns :
        returned[i].NumMatched + returned[i].NumNotMatched = AcceptedCount

\* C3: when a Match invocation returns, the bucket lengths of all per-worker
\* tables and call-sites sum to the returned NumMatched
C3_BucketsSumToMatched ==
    \A i \in Returns : TotalHits(returned[i].Matched) = returned[i].NumMatched

\* C6: two Match invocations of one process on the same search map and
\* archive return the same NumMatched and the same NumNotMatched
C6_SameCountsTwice ==
    \A i, j \in Returns :
        /\ returned[i].NumMatched = returned[j].NumMatched
        /\ returned[i].NumNotMatched = returned[j].NumNotMatched

\* the first invocation of a process: its counts are those of its archive
\* and of its tables, in every interleaving of the matchers
FirstRunCounts ==
    1 \in Returns =>
        /\ returned[1].NumMatched + returned[1].NumNotMatched = AcceptedCount
        /\ TotalHits(returned[1].Matched) = returned[1].NumMatched

\* every invocation returns the counters of the process, which count the
\* records of all invocations so far
CountersAccumulate ==
    \A i \in Returns :
        /\ returned[i].NumMatched + returned[i].NumNotMatched = i * AcceptedCount
        /\ TotalHits(returned[i].Matched) * i = returned[i].NumMatched

\* the per-worker tables: those the matchers hold, those on the results
\* channel and those Match has returned
AllTables ==
    UNION {{st.hit : st \in BagToSet(matchers[g])} : g \in DOMAIN matchers}
    \cup Range(results)
    \cup UNION {Range(returned[i].Matched) : i \in Returns}

\* the records in the buckets of call-site k
BucketRecords(k) ==
    UNION {Range(hit[k]) : hit \in {h \in AllTables : k \in DOMAIN h}}

\* the call-sites that have a bucket
BucketKeys == UNION {DOMAIN hit : hit \in AllTables}

\* p and s agree on (source_file, line_number, severity)
SameTriple(s, p) ==
    /\ ShortSourceFile(s) = p.SourceFile
    /\ s.LineNumber = p.LineNumber
    /\ s.Severity = p.Severity

\* C7 as the specification states it: a record is in the bucket of
\* call-site s only if its source_file is the short path of s, its
\* line_number that of s and its severity that of s
C7_MatchedOnlyOnTriple ==
    \A k \in BucketKeys : \A p \in BucketRecords(k) : SameTriple(SearchList[k], p)

\* C7, as the code has it: a record is in the bucket of call-site s only if
\* its source_file followed by the decimal digits of its line_number is the
\* short path of s followed by the decimal digits of the line_number of s,
\* byte for byte, and (for the severities of one digit) its severity is
\* that of s; a record of another severity is in no bucket of s
C7_MatchedOnlyOnBytes ==
    \A k \in BucketKeys : \A p \in BucketRecords(k) :
        LET s == SearchList[k]
        IN /\ p.SourceFile \o Itoa(p.LineNumber) = ShortSourceFile(s) \o Itoa(s.LineNumber)
           /\ s.Severity \in 0..9 => p.Severity = s.Severity

\* a Match on the line of the call-site and the same line at another
\* severity has returned: one record matched, the other did not
C7_Witness ==
    /\ buf = ArchiveOf(<<LineHit, LineSev>>, TRUE)
    /\ 1 \in Returns
    /\ returned[1].NumMatched = 1
    /\ returned[1].NumNotMatched = 1
    /\ \E hit \in Range(returned[1].Matched) : 1 \in DOMAIN hit

\* the records the parsers have emitted and the matchers have not yet taken
RecordsInFlight ==
    UNION {Range(parsedLines[g].q) : g \in DOMAIN parsedLines}
    \cup UNION {{st.rec : st \in {x \in BagToSet(scanners[g]) : x.pc = "send"}} :
                   g \in DOMAIN scanners}

\* LogStatements and ParsedLogs to compare the two fingerprints on
FpPaths == {<<"p", "/", "a", "/", "b">>, <<"p", "/", "a", "/", "b", "1">>,
            <<"a", "/", "b">>, <<"b">>, <<"/", "b">>}
FpStatements == [SourceFile : FpPaths, LineNumber : {1, 2, 12}, Severity : {0, 2}]
FpRecords ==
    [SourceFile : {ShortSourceFile(s) : s \in FpStatements},
     LineNumber : {1, 2, 12}, Severity : {0, 2}, Message : {<<>>}]

\* C8: a LogStatement s and a ParsedLog p with the short path of s equal to
\* p.source_file, the same line_number and the same severity have the same
\* fingerprint: for the call-sites of the search list and every record the
\* parsers emit, and, before the first Match, for the statements and
\* records of FpStatements and FpRecords
C8_SameTripleSameFingerprint ==
    /\ \A k \in DOMAIN SearchList : \A p \in RecordsInFlight :
           SameTriple(SearchList[k], p)
               => LogStatementFingerprint(SearchList[k]) = ParsedLogFingerprint(p)
    /\ (pc = "call" /\ run = 1) =>
           \A s \in FpStatements : \A p \in FpRecords :
               SameTriple(s, p) => LogStatementFingerprint(s) = ParsedLogFingerprint(p)

\* a parser has emitted the record of a call-site of the search list
C8_Witness ==
    \E g \in DOMAIN parsedLines : \E p \in Range(parsedLines[g].q) :
        \E k \in DOMAIN SearchList : SameTriple(SearchList[k], p)

\* the parser rejects the line: the configured JSON field is missing, or
\* ParseLine returns ok = false
LineRejected(line) ==
    LET msg == IF jsonField = <<>> THEN line ELSE GetBytes(line, jsonField)
    IN \/ jsonField # <<>> /\ msg = <<>>
       \/ ~ParseLine(msg).ok /\ ~ParseLine(msg).panic

\* a parser of group g takes a line it rejects from the line queue
TakesRejected(g) ==
    /\ g \in DOMAIN lines /\ g \in DOMAIN lines'
    /\ lines[g].q # <<>>
    /\ lines'[g].q = Tail(lines[g].q)
    /\ LineRejected(Head(lines[g].q))

\* C9: a line that the parser rejects is silently dropped: the step that
\* takes it changes neither NumMatched nor NumNotMatched, sends no record,
\* changes no table, does not end the process, and leaves every parser as
\* it was, ready for the following lines
C9_RejectedLineDropped ==
    [][\A g \in Groups :
           TakesRejected(g) =>
               /\ numMatched' = numMatched
               /\ numNotMatched' = numNotMatched
               /\ parsedLines' = parsedLines
               /\ matchers' = matchers
               /\ results' = results
               /\ scanners' = scanners
               /\ ~aborted']_vars

\* Match has returned on a rejected line followed by the line of a
\* call-site: the one is counted nowhere, the other is matched
C9_Witness ==
    /\ buf = ArchiveOf(<<LineBad, LineHit>>, TRUE)
    /\ numCPU = 4
    /\ 1 \in Returns
    /\ returned[1].NumMatched = 1
    /\ returned[1].NumNotMatched = 0

\* the goroutines Match has started: the closer, the parsers, the matchers
\* and the line producers
GoroutinesStarted ==
    \/ closer.pc # "unborn"
    \/ scanners # <<>>
    \/ matchers # <<>>
    \/ \E g \in DOMAIN readers : readers[g].pc # "unborn"

\* C10: when the archive cannot be stat-ed, opened or memory-mapped, Match
\* returns an error and no goroutine has been started
C10_NoWorkersOnSetupError ==
    (pc = "returned" /\ returned[Len(returned)].err) => ~GoroutinesStarted

\* every parser of group g has exited
ScannersExited(g) ==
    /\ g \in DOMAIN scanners
    /\ BagToSet(scanners[g]) = {ScannerDoneState}

\* every matcher of group g has exited
MatchersExited(g) ==
    /\ g \in DOMAIN matchers
    /\ \A st \in BagToSet(matchers[g]) : st.pc = "done"

\* every line producer, parser and matcher of the invocation has exited
AllExited ==
    /\ ProducersDone
    /\ scanners # <<>>
    /\ \A g \in DOMAIN scanners : ScannersExited(g) /\ MatchersExited(g)

\* C4: for a readable archive and at least one channel group, under fair
\* scheduling Match eventually returns and every line producer, parser and
\* matcher goroutine has exited: none stays blocked on a queue or a barrier
C4_MatchReturns ==
    (fs = "ok" /\ NumGroups >= 1) => <>(pc = "returned" /\ AllExited)

\* no line of the archive makes ParseLine index out of range
NoPanicLine == \A l \in Range(ArchiveLines) : ~ScannerStep(l, jsonField).panic

RECURSIVE ScanFails(_, _, _)
\* a scanner on b[lo:hi] reports an error before the end
ScanFails(b, lo, hi) ==
    LET s == ScanNext(b, lo, hi)
    IN s.err \/ (s.more /\ ScanFails(b, s.next, hi))

\* no line of the archive reaches the token limit of a producer's scanner
NoLongLine == ~ScanFails(buf, 0, Len(buf))

\* the pipeline on a non-empty archive whose lines the scanners can hold
\* and ParseLine survives: Match returns and every goroutine has exited
PipelineTerminates ==
    (fs = "ok" /\ NumGroups >= 1 /\ buf # <<>> /\ NoLongLine /\ NoPanicLine)
        => <>(pc = "returned" /\ AllExited)

\* C5: a parsed-record queue is closed only after every parser that feeds
\* it has exited, so that no parser sends on a closed queue, it is closed
\* once, and once all parsers that feed a queue have exited the queue is
\* eventually closed and its matchers drain it and exit
C5_ClosedAfterParsers ==
    /\ [](\A g \in DOMAIN parsedLines : parsedLines[g].closed => ScannersExited(g))
    /\ \A g \in Groups :
           ScannersExited(g) ~> (g \in DOMAIN parsedLines /\ parsedLines[g].closed
                                    /\ MatchersExited(g))

\* the part of it that is about the order: closed only after the parsers
ClosedOnlyAfterParsers ==
    \A g \in DOMAIN parsedLines : parsedLines[g].closed => ScannersExited(g)

(***************************************************************************)
(* The channel groups and the chunks.                                      *)
(***************************************************************************)
Max(a, b) == IF a >= b THEN a ELSE b

\* C11: for every width W >= 1 Match uses max(1, W / 4) channel groups and
\* chunks, and for W of 1, 2 or 3 the process does not end in a panic
C11_AtLeastOneGroup ==
    /\ lines # <<>> => Len(lines) = Max(1, numCPU \div 4)
    /\ readers # <<>> => Len(readers) = Max(1, numCPU \div 4)
    /\ numCPU \in 1..3 => ~aborted

\* from four CPUs on: W / 4 channel groups and as many chunks
GroupsAreQuarter ==
    numCPU >= 4 =>
        /\ lines # <<>> => Len(lines) = numCPU \div 4
        /\ readers # <<>> => Len(readers) = numCPU \div 4

\* ReadLines has cut every chunk and waits for the producers
ChunksCut == pc = "chunks" /\ chunkI = Len(lines)

\* chunk g, buf[lo:hi]
Chunk(g) == Slice(buf, readers[g].lo, readers[g].hi)

\* the chunks in index order, one after the other
AllChunks == Flatten([g \in DOMAIN readers |-> Chunk(g)])

\* the chunks follow one another from offset 0
Contiguous ==
    /\ readers[1].lo = 0
    /\ \A g \in DOMAIN readers : g > 1 => readers[g].lo = readers[g - 1].hi

\* C12 as the specification states it: the chunks are contiguous and their
\* concatenation is the file, its final newline included; with one chunk
\* the chunk is the whole buffer
C12_ChunksAreTheFile ==
    ChunksCut => /\ Contiguous
                 /\ AllChunks = buf
                 /\ Len(readers) = 1 => Chunk(1) = buf

\* the buffer without the newline that ends it, when one does
LessFinalNewline(b) ==
    IF Len(b) > 0 /\ b[Len(b)] = NL THEN SubSeq(b, 1, Len(b) - 1) ELSE b

\* C12, as the code has it: the chunks are contiguous and their
\* concatenation is the file less the newline that ends it, when one does;
\* with one chunk the chunk is that
C12_ChunksAreTheFileLessNewline ==
    ChunksCut => /\ Contiguous
                 /\ AllChunks = LessFinalNewline(buf)
                 /\ Len(readers) = 1 => Chunk(1) = LessFinalNewline(buf)

\* three chunks are cut from a file of several lines that ends in a
\* newline, and two of them are not empty
C12_Witness ==
    /\ ChunksCut
    /\ Len(readers) = 3
    /\ buf[Len(buf)] = NL
    /\ Chunk(1) # <<>> /\ Chunk(2) # <<>>

\* chunk g is not empty and its last byte is a newline
EndsWithNewline(g) == Chunk(g) # <<>> /\ Chunk(g)[Len(Chunk(g))] = NL

\* C13 as the specification states it: every chunk other than the last
\* ends with a newline byte
C13_ChunksEndWithNewline ==
    ChunksCut => \A g \in DOMAIN readers : g < Len(readers) => EndsWithNewline(g)

\* C13, as the code has it: every chunk that a non-empty chunk follows
\* ends with a newline byte; a chunk that reaches the end of the buffer
\* need not, and the chunks after it are empty
C13_ChunksBeforeOthersEndWithNewline ==
    ChunksCut =>
        \A g \in DOMAIN readers :
            (\E h \in DOMAIN readers : h > g /\ Chunk(h) # <<>>) => EndsWithNewline(g)

\* three chunks are cut, the second follows a first that ends with a
\* newline, and the third is empty
C13_Witness ==
    /\ ChunksCut
    /\ Len(readers) = 3
    /\ EndsWithNewline(1)
    /\ Chunk(2) # <<>> /\ ~EndsWithNewline(2)
    /\ Chunk(3) = <<>>

(***************************************************************************)
(* The klog line grammar, as the specification words it.                   *)
(***************************************************************************)
RECURSIVE FirstIndex(_, _, _)
\* the offset of the first c of line at or after from, Len(line) when none
FirstIndex(line, from, c) ==
    IF from >= Len(line) THEN Len(line)
    ELSE IF At(line, from) = c THEN from
    ELSE FirstIndex(line, from + 1, c)

\* ParseLine has returned ok = true
Accepted == ret.fn = "ParseLine" /\ ret.ok

\* the offset of the ':' that ends the path, and the path before it
ColonAt(line) == FirstIndex(line, 30, ":")
PathOf(line) == Slice(line, 30, ColonAt(line))

\* the path is a non-empty directory segment, one '/', a non-empty
\* filename, both of [A-Za-z0-9._-], ended by the first ':'
PathWellFormed(line) ==
    /\ ColonAt(line) < Len(line)
    /\ LET path == PathOf(line)
           slashes == {i \in DOMAIN path : path[i] = "/"}
       IN /\ Cardinality(slashes) = 1
          /\ \A i \in slashes : 1 < i /\ i < Len(path)
          /\ \A i \in DOMAIN path \ slashes : PathChar(path[i])

\* C14: ParseLine accepts a line only if its path, from offset 30 to the
\* first ':', is exactly one '/' between a non-empty directory segment and
\* a non-empty filename, both of characters [A-Za-z0-9._-]
C14_OnlyOneSlash == Accepted => PathWellFormed(arg.line)

\* what the code asks of the path: characters [A-Za-z0-9._-] and '/', with
\* something before the last '/' and something after it
PathAsParsed(line) ==
    /\ ColonAt(line) < Len(line)
    /\ LET path == PathOf(line)
           slashes == {i \in DOMAIN path : path[i] = "/"}
       IN /\ slashes # {}
          /\ \A i \in slashes : (\A j \in slashes : j <= i) => (1 < i /\ i < Len(path))
          /\ \A i \in DOMAIN path \ slashes : PathChar(path[i])

AcceptedPathAsParsed == Accepted => PathAsParsed(arg.line)

\* c is a decimal digit of at most m
DigitUpTo(c, m) == c \in DigitSet /\ DigitVal(c) <= m

\* the largest digit the header allows at an offset of the date and time
HeaderDigitMax ==
    [i \in {1, 2, 3, 4, 6, 7, 9, 10, 12, 13, 15, 16, 17, 18, 19, 20} |->
        CASE i = 1 -> 1
          [] i = 3 -> 3
          [] i = 6 -> 2
          [] i \in {9, 12} -> 5
          [] OTHER -> 9]

\* the line breaks a fixed-offset rule of the header
HeaderViolation(line) ==
    \/ Len(line) <= 29
    \/ /\ Len(line) > 29
       /\ \/ At(line, 5) # SP \/ At(line, 21) # SP \/ At(line, 29) # SP
          \/ At(line, 0) \notin {"I", "W", "E", "F"}
          \/ \E i \in DOMAIN HeaderDigitMax : ~DigitUpTo(At(line, i), HeaderDigitMax[i])
          \/ At(line, 8) # ":" \/ At(line, 11) # ":" \/ At(line, 14) # "."
          \/ \E i, j \in 22..28 : i < j /\ At(line, i) \in DigitSet /\ At(line, j) = SP

\* the ordinal of the severity letter
SeverityLetters == <<"I", "W", "E", "F">>
SeverityOrdinal(c) == (CHOOSE i \in 1..4 : SeverityLetters[i] = c) - 1

\* C15: ParseLine rejects every line that breaks a fixed-offset rule of the
\* header (length, the three spaces, the severity letter, the digit ranges
\* and separators of date and time, a space after a digit of the thread
\* id), and the severity of an accepted line is 0, 1, 2, 3 for I, W, E, F
C15_HeaderRules ==
    /\ (ret.fn = "ParseLine" /\ HeaderViolation(arg.line)) => (~ret.ok /\ ~ret.panic)
    /\ Accepted => ret.ls.Severity = SeverityOrdinal(At(arg.line, 0))

\* ParseLine has rejected the line whose thread id is " 73 568"
C15_Witness ==
    /\ ret.fn = "ParseLine" /\ ~ret.ok
    /\ arg.line = SetByte(LineHit, 25, SP)

\* the ']' that ends the number and the bytes between ':' and it
CloseAt(line) == FirstIndex(line, ColonAt(line) + 1, "]")
NumberOf(line) == Slice(line, ColonAt(line) + 1, CloseAt(line))

\* after ':' one or more decimal digits, then ']', then a space
NumberWellFormed(line) ==
    /\ ColonAt(line) < Len(line)
    /\ CloseAt(line) + 1 < Len(line)
    /\ NumberOf(line) # <<>>
    /\ \A i \in DOMAIN NumberOf(line) : NumberOf(line)[i] \in DigitSet
    /\ At(line, CloseAt(line) + 1) = SP

\* C16: ParseLine accepts a line only if one or more decimal digits follow
\* the ':', ended by ']' and a space, and the line_number of the record is
\* the decimal value of those digits
C16_NumberAndValue ==
    Accepted => /\ NumberWellFormed(arg.line)
                /\ Itoa(ret.ls.LineNumber) = StripZeros(NumberOf(arg.line))

\* the digits are the decimal value, or they exceed the largest int and the
\* record holds the largest int
NumberOrMaxInt ==
    Accepted =>
        /\ NumberWellFormed(arg.line)
        /\ \/ Itoa(ret.ls.LineNumber) = StripZeros(NumberOf(arg.line))
           \/ /\ ret.ls.LineNumber = MaxInt
              /\ LET z == StripZeros(NumberOf(arg.line))
                 IN Len(z) > 10 \/ (Len(z) = 10 /\ DigitsGreater(z, MaxIntDigits))

\* C17: the message of the record of an accepted line is the bytes after
\* the space that follows ']' up to but without the last byte of the line,
\* and its source_file is the bytes from offset 30 to the ':'
C17_MessageAndSourceFile ==
    Accepted =>
        /\ ret.ls.Message = Slice(arg.line, CloseAt(arg.line) + 2, Len(arg.line) - 1)
        /\ ret.ls.SourceFile = PathOf(arg.line)

\* ParseLine has accepted a line whose message holds a ']' and a ':'
C17_Witness ==
    /\ Accepted
    /\ arg.line = Header("W") \o <<"a", "/", "b", ":", "1", "2", "]", " ",
                                   "m", " ", "x", "]", ":">>
    /\ ret.ls.Message = <<"m", " ", "x", "]">>

\* C18: every record ParseLine emits has a positive line_number
C18_PositiveLineNumber == Accepted => ret.ls.LineNumber > 0

\* the string values a raw line carries for the field: X with the line
\* being the object {"<field>":"X"}, X free of quotes and escapes
StringValues(line, field) ==
    {x \in {SubSeq(line, i, j) : i \in 1..Len(line), j \in 0..Len(line)} :
        /\ line = JsonWrap(field, x)
        /\ \A k \in DOMAIN x : x[k] \notin {"\"", "\\"}}

\* a parser of group g takes the head of the line queue
TakesLine(g) ==
    /\ g \in DOMAIN lines /\ g \in DOMAIN lines'
    /\ lines[g].q # <<>>
    /\ lines'[g].q = Tail(lines[g].q)

\* the step produces, in group g, exactly the record ParseLine returns for
\* msg: one parser now holds that record to send, or, when ParseLine says
\* ok = false, nothing is produced
ProducesRecordOf(g, msg) ==
    LET r == ParseLine(msg)
    IN IF r.ok
       THEN /\ scanners'[g] (-) scanners[g] = SetToBag({[pc |-> "send", rec |-> r.ls]})
            /\ BagCardinality(scanners'[g]) = BagCardinality(scanners[g])
       ELSE scanners' = scanners

\* C19: with a JSON field configured, the record produced for a raw line
\* is exactly the record ParseLine produces for the string value of that
\* field, and a raw line that is not such JSON or lacks the field
\* produces no record and changes no counter; with no field configured
\* the raw line itself goes to ParseLine
C19_JsonFieldIsParsed ==
    [][\A g \in Groups :
           TakesLine(g) =>
               LET line == Head(lines[g].q)
                   values == StringValues(line, jsonField)
               IN /\ jsonField = <<>> => ProducesRecordOf(g, line)
                  /\ jsonField # <<>> /\ values # {} =>
                         \A x \in values : ProducesRecordOf(g, x)
                  /\ jsonField # <<>> /\ values = {} =>
                         /\ scanners' = scanners
                         /\ parsedLines' = parsedLines
                         /\ results' = results
                         /\ numMatched' = numMatched
                         /\ numNotMatched' = numNotMatched]_vars

\* Match has returned, with field "l" configured, on the JSON object that
\* carries the line of a call-site followed by that line itself: the
\* first is matched, the second is counted nowhere
C19_Witness ==
    /\ jsonField = <<"l">>
    /\ buf = ArchiveOf(<<LineJson, LineHit>>, TRUE)
    /\ 1 \in Returns
    /\ returned[1].NumMatched = 1
    /\ returned[1].NumNotMatched = 0

\* how often record p stands in bucket b
CountIn(b, p) == Cardinality({i \in DOMAIN b : b[i] = p})

RECURSIVE CountInTables(_, _, _)
\* how often record p stands under call-site k in the tables ts
CountInTables(ts, k, p) ==
    IF ts = <<>> THEN 0
    ELSE (IF k \in DOMAIN Head(ts) THEN CountIn(Head(ts)[k], p) ELSE 0)
         + CountInTables(Tail(ts), k, p)

\* the tables have been folded into one
Aggregated ==
    /\ arg.fn = "AggregateResults" /\ ret.fn = "AggregateResults"
    /\ Len(arg.results) = 1

\* C20: aggregation is associative and commutative over per-worker match
\* tables: whatever the order of the tables and however they are grouped
\* into calls, the aggregate has the call-sites of all of them as its keys
\* and, per call-site, each record as often as the tables together hold it
C20_AggregateOrderFree ==
    Aggregated =>
        LET agg == Deref(heap, ret.first)
        IN /\ DOMAIN agg = UNION {DOMAIN arg.tables[i] : i \in DOMAIN arg.tables}
           /\ \A k \in DOMAIN agg : \A p \in HitRecords \cup Range(agg[k]) :
                  CountIn(agg[k], p) = CountInTables(arg.tables, k, p)

\* three tables folded by two calls: the first table lacks a call-site a
\* later one holds, and the last two tables share a call-site
C20_Witness ==
    /\ Aggregated
    /\ Len(arg.tables) = 3
    /\ ret.calls = 2
    /\ DOMAIN arg.tables[1] = {2}
    /\ 1 \in DOMAIN arg.tables[2] \cap DOMAIN arg.tables[3]

\* a >= b on Go strings
StringGreaterEq(a, b) == a = b \/ StringGreater(a, b)

\* the sequences SortMatches has returned so far
Sorted == IF arg.fn = "SortMatches" THEN Range(ret.sorted) ELSE {}

\* C21: SortMatches returns a permutation of the entries of its input map
\* in which every adjacent pair (a, b) has len(a.Hits) >= len(b.Hits) and,
\* on equal lengths, a.Log.SourceFile >= b.Log.SourceFile
C21_SortedByHitsThenFile ==
    \A out \in Sorted :
        /\ Len(out) = Cardinality(DOMAIN arg.results)
        /\ {out[i].Log : i \in DOMAIN out} = DOMAIN arg.results
        /\ \A i \in DOMAIN out :
               out[i].Hits = IF arg.results[out[i].Log].nil THEN <<>>
                             ELSE arg.results[out[i].Log].hits
        /\ \A i \in 1..(Len(out) - 1) :
               /\ Len(out[i].Hits) >= Len(out[i + 1].Hits)
               /\ Len(out[i].Hits) = Len(out[i + 1].Hits) =>
                      StringGreaterEq(SortList[out[i].Log].SourceFile,
                                      SortList[out[i + 1].Log].SourceFile)

\* a table of four call-sites is sorted: two hits before one, and among
\* the three with one hit p/b before p/ab before p/a
C21_Witness ==
    /\ arg.fn = "SortMatches"
    /\ DOMAIN arg.results = {1, 2, 3, 4}
    /\ Len(ret.sorted) >= 1
    /\ [i \in 1..4 |-> ret.sorted[1][i].Log] = <<2, 3, 4, 1>>
    /\ [i \in 1..4 |-> Len(ret.sorted[1][i].Hits)] = <<2, 1, 1, 1>>

\* C22: two runs of SortMatches on the same table return the same
\* sequence, whatever the order the map is visited in, also when two
\* call-sites have the same hit count and the same source file
C22_SortDeterministic ==
    arg.fn = "SortMatches" =>
        \A i, j \in DOMAIN ret.sorted : ret.sorted[i] = ret.sorted[j]

\* two call-sites stand in a different order in two returned sequences
\* only if they have the same hit count and the same source file
SortOrderFreeButTies ==
    arg.fn = "SortMatches" =>
        \A i, j \in DOMAIN ret.sorted : \A m \in DOMAIN ret.sorted[i] :
            LET a == ret.sorted[i][m]
                b == ret.sorted[j][m]
            IN a # b => /\ Len(a.Hits) = Len(b.Hits)
                        /\ SortList[a.Log].SourceFile = SortList[b.Log].SourceFile

\* the retained call-sites of AnalyzeList whose bucket in the analysed
\* table exists and is not empty
HitSites ==
    {v \in Retained(AnalyzeList) :
        /\ v \in DOMAIN arg.results
        /\ ~arg.results[v].nil
        /\ Len(arg.results[v].hits) > 0}

MissedSites == Retained(AnalyzeList) \ HitSites

\* the verbosity a call-site is counted under
VerbosityKey(v) ==
    IF AnalyzeList[v].Verbosity.nil THEN -1 ELSE AnalyzeList[v].Verbosity.val

\* the call-sites of a severity among sites
OfSeverity(sites, sev) == {v \in sites : AnalyzeList[v].Severity = sev}

\* the map m counts, under each verbosity, the call-sites of the severity
\* among sites, and has no other key
CountsByVerbosity(m, sites, sev) ==
    /\ DOMAIN m = {VerbosityKey(v) : v \in OfSeverity(sites, sev)}
    /\ \A k \in DOMAIN m :
           m[k] = Cardinality({v \in OfSeverity(sites, sev) : VerbosityKey(v) = k})

\* C23: AnalyzeMatches counts every call-site of the search map exactly
\* once, as hit if its bucket exists and is non-empty and as missed
\* otherwise: the totals add up to the size of the search map, and each
\* call-site is counted under its own severity, for Info and Error under
\* its verbosity, -1 standing for none
C23_EachSiteCountedOnce ==
    ret.fn = "AnalyzeMatches" =>
        LET r == ret.result
        IN /\ r.NumHitTotal = Cardinality(HitSites)
           /\ r.NumMissedTotal = Cardinality(MissedSites)
           /\ r.NumHitTotal + r.NumMissedTotal =
                  Cardinality(DOMAIN GenerateSearchMap(AnalyzeList))
           /\ CountsByVerbosity(r.NumInfoHit, HitSites, 0)
           /\ CountsByVerbosity(r.NumInfoMissed, MissedSites, 0)
           /\ r.NumWarnHit = Cardinality(OfSeverity(HitSites, 1))
           /\ r.NumWarnMissed = Cardinality(OfSeverity(MissedSites, 1))
           /\ CountsByVerbosity(r.NumErrorHit, HitSites, 2)
           /\ CountsByVerbosity(r.NumErrorMissed, MissedSites, 2)
           /\ r.NumFatalHit = Cardinality(OfSeverity(HitSites, 3))
           /\ r.NumFatalMissed = Cardinality(OfSeverity(MissedSites, 3))

\* a table is analysed in which the Info call-site without verbosity is
\* hit, the one with verbosity 2 has an empty bucket, the Error call-site
\* has a nil bucket and the others are absent
C23_Witness ==
    /\ ret.fn = "AnalyzeMatches"
    /\ DOMAIN arg.results = {1, 2, 4}
    /\ Len(arg.results[1].hits) = 1
    /\ arg.results[2] = BucketOf(<<>>)
    /\ arg.results[4] = NilBucket
    /\ ret.result.NumHitTotal = 1
    /\ ret.result.NumMissedTotal = 4

\* the statements of the list with the fingerprint fp, in list order
RECURSIVE WithFingerprint(_, _, _)
WithFingerprint(list, fp, i) ==
    IF i > Len(list) THEN <<>>
    ELSE (IF LogStatementFingerprint(list[i]) = fp THEN <<i>> ELSE <<>>)
         \o WithFingerprint(list, fp, i + 1)

\* the fingerprints of the statements of the list
FingerprintsOf(list) == {LogStatementFingerprint(list[i]) : i \in DOMAIN list}

RECURSIVE SumOver(_, _)
\* the sum of f over the set S
SumOver(f, S) == IF S = {} THEN 0
                 ELSE LET x == CHOOSE y \in S : TRUE IN f[x] + SumOver(f, S \ {x})

\* C24: GenerateSearchMap keeps, for each fingerprint, the first statement
\* of the list with it; every later statement with that fingerprint is
\* left out of the search map and reported under the fingerprint in the
\* collisions, after the retained one and in list order, so that the size
\* of the search map plus the number of reported duplicates is the length
\* of the list
C24_FirstWinsOthersReported ==
    ret.fn = "GenerateSearchMap" =>
        LET list == arg.list
            same == [fp \in FingerprintsOf(list) |-> WithFingerprint(list, fp, 1)]
            duplicates == [fp \in DOMAIN ret.collisions |-> Len(ret.collisions[fp]) - 1]
        IN /\ DOMAIN ret.sm = FingerprintsOf(list)
           /\ \A fp \in DOMAIN ret.sm : ret.sm[fp] = same[fp][1]
           /\ DOMAIN ret.collisions = {fp \in FingerprintsOf(list) : Len(same[fp]) > 1}
           /\ \A fp \in DOMAIN ret.collisions : ret.collisions[fp] = same[fp]
           /\ Cardinality(DOMAIN ret.sm) + SumOver(duplicates, DOMAIN duplicates) = Len(list)

\* the search map of a list of three statements is built: the first and
\* the third have one fingerprint, the second has another
C24_Witness ==
    /\ ret.fn = "GenerateSearchMap"
    /\ Len(arg.list) = 3
    /\ LogStatementFingerprint(arg.list[1]) = LogStatementFingerprint(arg.list[3])
    /\ LogStatementFingerprint(arg.list[1]) # LogStatementFingerprint(arg.list[2])
    /\ arg.list[1] # arg.list[3]
    /\ Cardinality(DOMAIN ret.sm) = 2

\* C26: ParseLine is total: for every byte sequence it returns (record,
\* ok) without an index or slice-bounds failure, also for a line with a
\* valid header, path and line number whose last byte is the space after
\* the ']'
C26_ParseLineTotal ==
    ret.fn = "ParseLine" => ~ret.panic

\* ParseLine fails only on a line that ends with the ']' of the line
\* number and the space after it
ParseLineFailsOnlyOnEmptyTail ==
    ret.fn = "ParseLine" /\ ret.panic =>
        /\ Len(arg.line) > 32
        /\ At(arg.line, Len(arg.line) - 1) = SP
        /\ At(arg.line, Len(arg.line) - 2) = "]"
        /\ At(arg.line, Len(arg.line) - 3) \in DigitSet

\* the producer of chunk g ends in this step
ProducerEnds(g) ==
    /\ g \in DOMAIN readers /\ g \in DOMAIN readers'
    /\ readers[g].pc = "scan" /\ readers'[g].pc = "done"

\* a parser of group g exits in this step
ParserExits(g) ==
    /\ g \in DOMAIN scanners /\ g \in DOMAIN scanners'
    /\ CopiesIn(ScannerDoneState, scanners'[g]) > CopiesIn(ScannerDoneState, scanners[g])

\* C27: each line producer sends all lines of its chunk and then closes
\* its line queue exactly once (the queue is closed by the step that ends
\* its producer, by no other step, and is open until then); nothing is
\* sent on the queue after the close, and a parser reading the queue exits
\* only when the queue is closed and drained
C27_ProducerClosesOnce ==
    [][\A g \in Groups :
           /\ ProducerEnds(g) =>
                  /\ Pushed(g) = ScanAll(buf, readers[g].lo, readers[g].hi)
                  /\ ~lines[g].closed /\ lines'[g].closed
           /\ (g \in DOMAIN lines /\ g \in DOMAIN lines' /\ pc # "call") =>
                  /\ ~lines[g].closed /\ lines'[g].closed => ProducerEnds(g)
                  /\ lines[g].closed =>
                         /\ lines'[g].closed
                         /\ IsSuffix(lines'[g].q, lines[g].q)
           /\ ParserExits(g) => lines[g].closed /\ lines[g].q = <<>>]_vars

\* a producer has sent the two lines of its chunk and closed its queue,
\* and a parser of its group has exited
C27_Witness ==
    /\ 1 \in DOMAIN readers
    /\ readers[1].pc = "done"
    /\ Len(Pushed(1)) = 2
    /\ lines[1].closed /\ lines[1].q = <<>>
    /\ BagIn(ScannerDoneState, scanners[1])

\* the lines of chunk g, as its producer's scanner yields them
ChunkLines(g) == ScanAll(buf, readers[g].lo, readers[g].hi)

\* the pairs (a, b) of lines of chunk g, a before b, both parseable and
\* each found once in the chunk
OrderedPairs(g) ==
    LET ls == ChunkLines(g)
        ok(i) == /\ \A k \in DOMAIN ls : ls[k] = ls[i] => k = i
                 /\ ScannerStep(ls[i], jsonField).send
    IN {<<ls[ij[1]], ls[ij[2]]>> :
           ij \in {x \in (DOMAIN ls) \X (DOMAIN ls) : x[1] < x[2] /\ ok(x[1]) /\ ok(x[2])}}

\* the record of a parseable line
RecordOf(l) == ScannerStep(l, jsonField).rec

\* a parser of group g holds the record p, still to be sent
HeldByParser(g, p) == \E st \in BagToSet(scanners[g]) : st.pc = "send" /\ st.rec = p

\* group g has a started producer and parsers that hold records or a
\* parsed-record queue that is not empty
GroupBusy(g) ==
    /\ g \in DOMAIN readers /\ g \in DOMAIN scanners /\ g \in DOMAIN parsedLines
    /\ readers[g].pc # "unborn"
    /\ \/ parsedLines[g].q # <<>>
       \/ \E st \in BagToSet(scanners[g]) : st.pc = "send"

\* C28: for two parseable lines a before b of one chunk, the
\* record of a is delivered to the group's parsed-record queue before the
\* record of b: b's record is never in the queue while a parser still
\* holds a's
C28_DeliveredInFileOrder ==
    \A g \in Groups :
        GroupBusy(g) =>
            \A ab \in OrderedPairs(g) :
                ~(/\ HeldByParser(g, RecordOf(ab[1]))
                  /\ RecordOf(ab[2]) \in Range(parsedLines[g].q))

\* for two parseable lines a before b of one chunk, a is taken from the
\* line queue before b is: while b's record is held by a
\* parser or stands in the parsed-record queue, a has been sent by the
\* producer and is no longer in the line queue
C28_TakenInFileOrder ==
    \A g \in Groups :
        GroupBusy(g) =>
            \A ab \in OrderedPairs(g) :
                (\/ HeldByParser(g, RecordOf(ab[2]))
                 \/ RecordOf(ab[2]) \in Range(parsedLines[g].q))
                    => /\ ab[1] \in Range(Pushed(g))
                       /\ ab[1] \notin Range(lines[g].q)

\* the parsers and the matchers Match has started for group g
ParsersOf(g) == BagCardinality(scanners[g])
MatchersOf(g) == BagCardinality(matchers[g])

\* C29: for every W with G = W / 4 >= 1 every channel group has exactly
\* W / G parsers and exactly W / G matchers, and so at least one of each
C29_EqualShares ==
    \A g \in DOMAIN scanners :
        /\ ParsersOf(g) = numCPU \div NumGroups
        /\ MatchersOf(g) = numCPU \div NumGroups
        /\ ParsersOf(g) >= 1 /\ MatchersOf(g) >= 1

\* C29, amended: the W parsers and the W matchers are dealt round-robin:
\* each of the first W mod G groups has one parser and one matcher more
\* than W / G, every other group exactly W / G, which is at least four
C29_RoundRobinShares ==
    \A g \in DOMAIN scanners :
        LET share == (numCPU \div NumGroups)
                     + (IF g <= numCPU % NumGroups THEN 1 ELSE 0)
        IN /\ ParsersOf(g) = share
           /\ MatchersOf(g) = share
           /\ share >= 4

\* nine workers over two groups: five parsers and matchers for the first,
\* four for the second
C29_Witness ==
    /\ numCPU = 9
    /\ DOMAIN scanners = {1, 2}
    /\ ParsersOf(1) = 5 /\ MatchersOf(1) = 5
    /\ ParsersOf(2) = 4 /\ MatchersOf(2) = 4

Min(a, b) == IF a <= b THEN a ELSE b

RECURSIVE SpecAdvance(_, _)
\* the specified algorithm: advance pos forward while buf[pos] is not a
\* newline and pos < file_size - 1
SpecAdvance(b, pos) ==
    IF At(b, pos) # NL /\ pos < Len(b) - 1 THEN SpecAdvance(b, pos + 1) ELSE pos

\* the specified algorithm: pos = min(pos + raw, file_size - 1); advance;
\* pos++ if pos < file_size - 1
SpecChunkEnd(b, pos, raw) ==
    LET p == SpecAdvance(b, Min(pos + raw, Len(b) - 1))
    IN IF p < Len(b) - 1 THEN p + 1 ELSE p

RECURSIVE SpecChunksFrom(_, _, _, _)
\* the specified algorithm: the slices [start, pos) of the chunks i..G-1
SpecChunksFrom(b, G, i, pos) ==
    IF i = G THEN <<>>
    ELSE LET end == SpecChunkEnd(b, pos, Len(b) \div G)
         IN <<[lo |-> pos, hi |-> end]>> \o SpecChunksFrom(b, G, i + 1, end)

\* the boundaries ReadLines has computed
CodeChunks == [g \in DOMAIN readers |-> [lo |-> readers[g].lo, hi |-> readers[g].hi]]

\* C30: for every non-empty buffer and every G >= 1 the chunk boundaries
\* computed by ReadLines are those of the specified algorithm, also for a
\* file whose last byte is not a newline
C30_BoundariesAsSpecified ==
    (ChunksCut /\ buf # <<>>) => CodeChunks = SpecChunksFrom(buf, Len(readers), 0, 0)

\* C30, amended: the boundaries of ReadLines are those of the specified
\* algorithm for a buffer that ends with a newline; for any other non-empty
\* buffer they are those once each boundary of ReadLines that is file_size
\* is read as file_size - 1, where the specified algorithm stops
C30_BoundariesButLastByte ==
    (ChunksCut /\ buf # <<>>) =>
        LET spec == SpecChunksFrom(buf, Len(readers), 0, 0)
            clip(x) == Min(x, Len(buf) - 1)
        IN /\ [g \in DOMAIN readers |->
                  [lo |-> clip(readers[g].lo), hi |-> clip(readers[g].hi)]] = spec
           /\ buf[Len(buf)] = NL => CodeChunks = spec
           /\ buf[Len(buf)] # NL => \E g \in DOMAIN readers : readers[g].hi = Len(buf)

\* two chunks are cut from "a\na": ReadLines ends the second at offset 3,
\* behind the last byte
C30_Witness ==
    /\ ChunksCut
    /\ buf = <<"a", NL, "a">>
    /\ CodeChunks = <<[lo |-> 0, hi |-> 2], [lo |-> 2, hi |-> 3]>>

\* C31: for an empty archive the chunker produces G empty chunks, every
\* producer closes its queue without sending, and Match returns without
\* error with no record counted: ReadLines does not fail, what it leaves
\* are G empty chunks with finished producers, and a returned Match has no
\* error and both counters at 0
C31_EmptyArchiveIsClean ==
    (buf = <<>> /\ fs = "ok" /\ NumGroups >= 1) =>
        /\ pc = "ReadLinesReturned" =>
               /\ ~rlErr
               /\ Len(readers) = NumGroups
               /\ \A g \in DOMAIN readers :
                      /\ readers[g].pc = "done"
                      /\ readers[g].lo = readers[g].hi
                      /\ lines[g].closed
        /\ \A i \in DOMAIN returned :
               /\ ~returned[i].err
               /\ returned[i].NumMatched = 0
               /\ returned[i].NumNotMatched = 0

\* on an empty archive that can be opened no chunk is ever cut and no
\* producer started: every Match invocation returns the error of the map
EmptyArchiveFailsToMap ==
    (buf = <<>> /\ fs = "ok" /\ NumGroups >= 1) =>
        /\ readers = <<>>
        /\ pc = "ReadLinesReturned" => rlErr
        /\ \A i \in DOMAIN returned : returned[i].err

RECURSIVE ConcatBuckets(_, _)
\* the buckets of call-site k in the tables ts, one after the other in
\* table order, over the tables that have k
ConcatBuckets(ts, k) ==
    IF ts = <<>> THEN <<>>
    ELSE (IF k \in DOMAIN Head(ts) THEN Head(ts)[k] ELSE <<>>) \o ConcatBuckets(Tail(ts), k)

\* the aggregate of the tables Match invocation i returned, as one call
\* of AggregateResults on results.Matched leaves it
AggregateOf(i) ==
    LET ts == returned[i].Matched
        r == AggregateResults(HeapOf(ts), [j \in DOMAIN ts |-> j])
    IN Deref(r.heap, r.first)

\* the table agg has, for every call-site of the tables ts, the buckets of
\* ts one after the other in table order, and no other key
IsConcatenation(agg, ts) ==
    /\ DOMAIN agg = UNION {DOMAIN ts[j] : j \in DOMAIN ts}
    /\ \A k \in DOMAIN agg :
           /\ agg[k] = ConcatBuckets(ts, k)
           /\ Len(agg[k]) = TotalHits([j \in DOMAIN ts |->
                                         IF k \in DOMAIN ts[j] THEN [x \in {k} |-> ts[j][k]]
                                         ELSE EmptyMap])

\* C32: AggregateResults returns a table in which the bucket of every
\* call-site k is the concatenation of M1[k], M2[k], ... in table order,
\* its length the sum of the per-worker bucket lengths, and the total over
\* all call-sites is the NumMatched of the Match run that returned the
\* tables
C32_ConcatenationTotalsNumMatched ==
    \A i \in Returns :
        /\ IsConcatenation(AggregateOf(i), returned[i].Matched)
        /\ TableHits(AggregateOf(i)) = returned[i].NumMatched

\* the aggregate is the concatenation for every Match run, and its total
\* is the NumMatched of the first Match run of the process
ConcatenationTotalsFirstRun ==
    \A i \in Returns :
        /\ IsConcatenation(AggregateOf(i), returned[i].Matched)
        /\ i = 1 => TableHits(AggregateOf(i)) = returned[i].NumMatched

\* the tables of AggregateSpec, folded into one in any grouping of
\* neighbours, are the concatenation in table order
AggregateIsConcatenation ==
    Aggregated => IsConcatenation(Deref(heap, ret.first), arg.tables)

\* C33: AggregateResults leaves the per-worker tables it is given
\* unchanged, so a second call on the same MatchResults.Matched returns the
\* same hit count for every call-site as the first
C33_InputsUnchanged ==
    ret # NoRet =>
        /\ \A i \in DOMAIN arg.tables : Deref(heap, i) = arg.tables[i]
        /\ \A c \in DOMAIN ret.counts : ret.counts[c] = ret.counts[1]

\* the tables after results[0] keep their keys, and a single table is
\* returned as it is, however often it is aggregated
AggregateKeepsLaterKeys ==
    ret # NoRet =>
        /\ \A i \in DOMAIN arg.tables :
               i > 1 => DOMAIN Deref(heap, i) = DOMAIN arg.tables[i]
        /\ Len(arg.tables) = 1 =>
               /\ Deref(heap, 1) = arg.tables[1]
               /\ \A c \in DOMAIN ret.counts : ret.counts[c] = HitCounts(arg.tables[1])

\* a table of the pipeline with its buckets as slices that are not nil
BucketsOf(hit) == [k \in DOMAIN hit |-> BucketOf(hit[k])]

\* C34: for the aggregate of a Match run, FindMissed returns exactly the
\* call-sites AnalyzeMatches counts as missed, as many as NumMissedTotal,
\* and no per-worker table and no aggregate has a key with an empty bucket
C34_MissedAgree ==
    \A i \in Returns :
        LET agg == BucketsOf(AggregateOf(i))
            missed == FindMissed(sm, agg)
        IN /\ DOMAIN missed = {v \in Retained(SearchList) : IsMissed(agg, v)}
           /\ Cardinality(DOMAIN missed) = AnalyzeMatches(SearchList, agg).NumMissedTotal
           /\ \A k \in DOMAIN agg : agg[k].hits # <<>>
           /\ \A j \in DOMAIN returned[i].Matched :
                  \A k \in DOMAIN returned[i].Matched[j] : returned[i].Matched[j][k] # <<>>

\* a Match run returned with one call-site hit and the other missed
C34_Witness ==
    \E i \in Returns :
        /\ DOMAIN AggregateOf(i) = {1}
        /\ DOMAIN FindMissed(sm, BucketsOf(AggregateOf(i))) = {2}
        /\ AnalyzeMatches(SearchList, BucketsOf(AggregateOf(i))).NumMissedTotal = 1

\* C35: a line whose line-number digits strconv.Atoi cannot convert,
\* their value being beyond the integer range, is rejected by ParseLine:
\* no accepted line has such digits
C35_OverflowRejected ==
    Accepted => ~Atoi(NumberOf(arg.line)).err

\* an accepted line whose digits Atoi cannot convert has the value Atoi
\* returns beside its error as line_number
AtoiErrorIgnored ==
    (Accepted /\ Atoi(NumberOf(arg.line)).err) => ret.ls.LineNumber = MaxInt

\* the producer of group g has nothing left to scan in its chunk
ChunkScanned(g) ==
    /\ readers[g].pc = "done"
    /\ ~ScanNext(buf, readers[g].pos, readers[g].hi).more
    /\ ~ScanNext(buf, readers[g].pos, readers[g].hi).err

OneMatcherWrites(g) ==
    /\ parsedLines[g].q # <<>>
    /\ LET p == Head(parsedLines[g].q)
           fp == ParsedLogFingerprint(p)
       IN /\ fp \in DOMAIN sm
          /\ \E st \in BagToSet(matchers[g]) :
                 /\ st.pc = "recv"
                 /\ matchers' = [matchers EXCEPT ![g] =
                                    BagSwap(@, st, [st EXCEPT !.hit = Hit(@, sm[fp], p)])]

\* the step leaves every matcher as it is but one of group g, which hands
\* its table, as it is, to Match and is done
OneMatcherHandsOver(g) ==
    \E st \in BagToSet(matchers[g]) :
        /\ st.pc = "recv"
        /\ results' = Append(results, st.hit)
        /\ matchers' = [matchers EXCEPT ![g] = BagSwap(@, st, MatcherDoneState)]

\* C37: while the pipeline runs no step changes the search map, and a step
\* that changes a match table is the step of one matcher on its own table:
\* it adds one record to one bucket of that table, or hands the table
\* over to Match; the tables of all other matchers stay as they are
C37_OneWriterPerTable ==
    [][/\ sm' = sm
       /\ matchers' # matchers =>
              \/ pc = "call" /\ pc' = "ReadLines"
              \/ \E g \in DOMAIN matchers : OneMatcherWrites(g) \/ OneMatcherHandsOver(g)]_vars

\* two matchers of a group each hold a bucket of the same call-site
C37_Witness ==
    \E g \in DOMAIN matchers :
        \E st \in BagToSet(matchers[g]) :
            /\ st.pc = "recv" /\ 1 \in DOMAIN st.hit
            /\ \/ matchers[g][st] >= 2
               \/ \E other \in BagToSet(matchers[g]) \ {st} :
                      other.pc = "recv" /\ 1 \in DOMAIN other.hit

\* C38: without --all the match command prints the first min(top, n) of
\* the n ranked entries and does not fail, also when fewer than top
\* call-sites were matched
C38_PrintsTopOrFewer ==
    (ret.fn = "matchCmd" /\ ~arg.showAll) =>
        /\ ~ret.panic
        /\ ret.printed = SubSeq(ret.sorted, 1, Min(arg.top, Len(ret.sorted)))

\* the command prints the first top entries when there are that many,
\* every entry with --all, and nothing when no call-site was matched; with
\* fewer than top entries and no --all the slice expression panics
PrintsTopWhenEnough ==
    ret.fn = "matchCmd" =>
        LET n == Len(ret.sorted)
        IN /\ ret.panic <=> (~arg.showAll /\ 0 < n /\ n < arg.top)
           /\ ~ret.panic =>
                  ret.printed = IF arg.showAll \/ n = 0 THEN ret.sorted
                                ELSE SubSeq(ret.sorted, 1, arg.top)

====
